---- MODULE Spec2Model ----
(***************************************************************************)
(* A model of the emulated MOS 6502 CPU of the NES emulator (src/cpu) over *)
(* a flat 64 KiB bus.  The CPU's fields are the variables; new(), reset(), *)
(* step(), tick(), irq() and nmi() are the actions.  The bus is the flat   *)
(* array of mem/mod.rs; a cell the program has not touched yet holds an    *)
(* arbitrary byte, which is fixed the first time the cell is loaded.       *)
(***************************************************************************)
EXTENDS Integers, Sequences, FiniteSets, TLC

(***************************************************************************)
(* Bounds of the model.                                                    *)
(***************************************************************************)
\* Number of calls made on the Cpu after construction.
MaxCalls == 4

\* Bytes an untouched memory cell may turn out to hold when it is fetched as
\* an opcode: BRK, PLP, RTI, JMP, CLI, BNE, STP ($02) and the unstable AAC
\* ($0B).
OpcodeBytes == {0, 40, 64, 76, 88, 208, 2, 11}

\* Bytes an untouched cell may hold when it is loaded as the first and as
\* the second operand byte: $FE is the branch offset -2.
OperandLowBytes == {0, 254}
OperandHighBytes == {0}

\* Bytes an untouched cell may hold when it is loaded as data (a pulled
\* byte, a pointer, an operand's target).
DataBytes == {0, 254}

\* Bytes the untouched cells of an interrupt vector hold: every vector
\* points at $0200 until the program stores to it.
VectorLowBytes == {0}
VectorHighBytes == {2}

(***************************************************************************)
(* Bit operations on bytes (Rust's u8 operators).                          *)
(***************************************************************************)
Bit(v, i) == (v \div (2 ^ i)) % 2

BitAnd(m, n) ==
  Bit(m, 0) * Bit(n, 0) + 2 * Bit(m, 1) * Bit(n, 1) + 4 * Bit(m, 2) * Bit(n, 2)
  + 8 * Bit(m, 3) * Bit(n, 3) + 16 * Bit(m, 4) * Bit(n, 4)
  + 32 * Bit(m, 5) * Bit(n, 5) + 64 * Bit(m, 6) * Bit(n, 6)
  + 128 * Bit(m, 7) * Bit(n, 7)

\* m ^ n = (m | n) - (m & n), and m | n = m + n - (m & n)
BitXor(m, n) == m + n - 2 * BitAnd(m, n)

BitOr(m, n) == m + n - BitAnd(m, n)

BitNot(m) == 255 - m

(***************************************************************************)
(* Flags (cpu/registers.rs): the P register is a byte of named bits.       *)
(***************************************************************************)
CARRY == 1
ZERO == 2
INTERRUPT_DISABLE == 4
DECIMAL == 8
BREAK == 16
UNUSED == 32
OVERFLOW == 64
NEGATIVE == 128
ALWAYS_ON == BitOr(BREAK, UNUSED)

Contains(flags, f) == BitAnd(flags, f) = f

Insert(flags, f) == BitOr(flags, f)

Remove(flags, f) == BitAnd(flags, BitNot(f))

SetFlag(flags, f, b) == IF b THEN Insert(flags, f) ELSE Remove(flags, f)

FlagsDefault == ALWAYS_ON

(***************************************************************************)
(* Address (mem/address.rs): a u16 with wrapping arithmetic.               *)
(***************************************************************************)
AddrFromBytes(low, high) == low + 256 * high

AddrLow(addr) == addr % 256

AddrHigh(addr) == addr \div 256

AddU8(addr, n) == (addr + n) % 65536

SubU8(addr, n) == (addr - n) % 65536

\* Add<i8> as it would be if it negated the offset before widening it, as
\* the three other operators with an i8 do: -128 stays -128.
AddI8_negatesBeforeWidening(addr, off) ==
  IF off < 0
    THEN (addr - (IF off = -128 THEN 65408 ELSE -off)) % 65536
    ELSE (addr + off) % 65536

AddI8(addr, off) ==
  IF off < 0 THEN (addr - (-off)) % 65536 ELSE (addr + off) % 65536

AsI8(b) == IF b > 127 THEN b - 256 ELSE b

WrappingAdd8(m, n) == (m + n) % 256

WrappingSub8(m, n) == (m - n) % 256

(***************************************************************************)
(* Constants of cpu/mod.rs.                                                *)
(***************************************************************************)
STACK_START == 256
NMI_VECTOR == <<65530, 65531>>
RESET_VECTOR == <<65532, 65533>>
IRQ_VECTOR == <<65534, 65535>>

CYCLE_TABLE ==
  <<7, 6, 2, 8, 3, 3, 5, 5, 3, 2, 2, 2, 4, 4, 6, 6,
    2, 5, 2, 8, 4, 4, 6, 6, 2, 4, 2, 7, 4, 4, 7, 7,
    6, 6, 2, 8, 3, 3, 5, 5, 4, 2, 2, 2, 4, 4, 6, 6,
    2, 5, 2, 8, 4, 4, 6, 6, 2, 4, 2, 7, 4, 4, 7, 7,
    6, 6, 2, 8, 3, 3, 5, 5, 3, 2, 2, 2, 3, 4, 6, 6,
    2, 5, 2, 8, 4, 4, 6, 6, 2, 4, 2, 7, 4, 4, 7, 7,
    6, 6, 2, 8, 3, 3, 5, 5, 4, 2, 2, 2, 5, 4, 6, 6,
    2, 5, 2, 8, 4, 4, 6, 6, 2, 4, 2, 7, 4, 4, 7, 7,
    2, 6, 2, 6, 3, 3, 3, 3, 2, 2, 2, 2, 4, 4, 4, 4,
    2, 6, 2, 6, 4, 4, 4, 4, 2, 5, 2, 5, 5, 5, 5, 5,
    2, 6, 2, 6, 3, 3, 3, 3, 2, 2, 2, 2, 4, 4, 4, 4,
    2, 5, 2, 5, 4, 4, 4, 4, 2, 4, 2, 4, 4, 4, 4, 4,
    2, 6, 2, 8, 3, 3, 5, 5, 2, 2, 2, 2, 4, 4, 6, 6,
    2, 5, 2, 8, 4, 4, 6, 6, 2, 4, 2, 7, 4, 4, 7, 7,
    2, 6, 3, 8, 3, 3, 5, 5, 2, 2, 2, 2, 4, 4, 6, 6,
    2, 5, 2, 8, 4, 4, 6, 6, 2, 4, 2, 7, 4, 4, 7, 7>>

(***************************************************************************)
(* The decode table of Instruction::fetch (cpu/instruction.rs): for every  *)
(* opcode byte the operation and the addressing mode of its variant;       *)
(* "Illegal" marks the bytes whose match arm panics.                       *)
(***************************************************************************)
OPCODE_OP ==
  <<"Brk", "Ora", "UStp", "USlo", "UNop", "Ora", "Asl", "USlo", "Php", "Ora", "Asl", "Illegal", "UNop", "Ora", "Asl", "USlo",
    "Bpl", "Ora", "UStp", "USlo", "UNop", "Ora", "Asl", "USlo", "Clc", "Ora", "UNop", "USlo", "UNop", "Ora", "Asl", "USlo",
    "Jsr", "And", "UStp", "URla", "Bit", "And", "Rol", "URla", "Plp", "And", "Rol", "Illegal", "Bit", "And", "Rol", "URla",
    "Bmi", "And", "UStp", "URla", "UNop", "And", "Rol", "URla", "Sec", "And", "UNop", "URla", "UNop", "And", "Rol", "URla",
    "Rti", "Eor", "UStp", "USre", "UNop", "Eor", "Lsr", "USre", "Pha", "Eor", "Lsr", "Illegal", "Jmp", "Eor", "Lsr", "USre",
    "Bvc", "Eor", "UStp", "USre", "UNop", "Eor", "Lsr", "USre", "Cli", "Eor", "UNop", "USre", "UNop", "Eor", "Lsr", "USre",
    "Rts", "Adc", "UStp", "URra", "UNop", "Adc", "Ror", "URra", "Pla", "Adc", "Ror", "Illegal", "Jmp", "Adc", "Ror", "URra",
    "Bvs", "Adc", "UStp", "URra", "UNop", "Adc", "Ror", "URra", "Sei", "Adc", "UNop", "URra", "UNop", "Adc", "Ror", "URra",
    "UNop", "Sta", "UNop", "USax", "Sty", "Sta", "Stx", "USax", "Dey", "UNop", "Txa", "Illegal", "Sty", "Sta", "Stx", "USax",
    "Bcc", "Sta", "UStp", "Illegal", "Sty", "Sta", "Stx", "USax", "Tya", "Sta", "Txs", "Illegal", "Illegal", "Sta", "Illegal", "Illegal",
    "Ldy", "Lda", "Ldx", "ULax", "Ldy", "Lda", "Ldx", "ULax", "Tay", "Lda", "Tax", "Illegal", "Ldy", "Lda", "Ldx", "ULax",
    "Bcs", "Lda", "UStp", "ULax", "Ldy", "Lda", "Ldx", "ULax", "Clv", "Lda", "Tsx", "Illegal", "Ldy", "Lda", "Ldx", "ULax",
    "Cpy", "Cmp", "UNop", "UDcp", "Cpy", "Cmp", "Dec", "UDcp", "Iny", "Cmp", "Dex", "Illegal", "Cpy", "Cmp", "Dec", "UDcp",
    "Bne", "Cmp", "UStp", "UDcp", "UNop", "Cmp", "Dec", "UDcp", "Cld", "Cmp", "UNop", "UDcp", "UNop", "Cmp", "Dec", "UDcp",
    "Cpx", "Sbc", "UNop", "UIsb", "Cpx", "Sbc", "Inc", "UIsb", "Inx", "Sbc", "Nop", "USbc", "Cpx", "Sbc", "Inc", "UIsb",
    "Beq", "Sbc", "UStp", "UIsb", "UNop", "Sbc", "Inc", "UIsb", "Sed", "Sbc", "UNop", "UIsb", "UNop", "Sbc", "Inc", "UIsb">>

OPCODE_MODE ==
  <<"Implied", "IndexedIndirect", "Implied", "IndexedIndirect", "ZeroPage", "ZeroPage", "ZeroPage", "ZeroPage", "Implied", "Immediate", "Accumulator", "Implied", "Absolute", "Absolute", "Absolute", "Absolute",
    "Relative", "IndirectIndexed", "Implied", "IndirectIndexed", "ZeroPageX", "ZeroPageX", "ZeroPageX", "ZeroPageX", "Implied", "AbsoluteY", "Implied", "AbsoluteY", "AbsoluteX", "AbsoluteX", "AbsoluteX", "AbsoluteX",
    "Absolute", "IndexedIndirect", "Implied", "IndexedIndirect", "ZeroPage", "ZeroPage", "ZeroPage", "ZeroPage", "Implied", "Immediate", "Accumulator", "Implied", "Absolute", "Absolute", "Absolute", "Absolute",
    "Relative", "IndirectIndexed", "Implied", "IndirectIndexed", "ZeroPageX", "ZeroPageX", "ZeroPageX", "ZeroPageX", "Implied", "AbsoluteY", "Implied", "AbsoluteY", "AbsoluteX", "AbsoluteX", "AbsoluteX", "AbsoluteX",
    "Implied", "IndexedIndirect", "Implied", "IndexedIndirect", "ZeroPage", "ZeroPage", "ZeroPage", "ZeroPage", "Implied", "Immediate", "Accumulator", "Implied", "Absolute", "Absolute", "Absolute", "Absolute",
    "Relative", "IndirectIndexed", "Implied", "IndirectIndexed", "ZeroPageX", "ZeroPageX", "ZeroPageX", "ZeroPageX", "Implied", "AbsoluteY", "Implied", "AbsoluteY", "AbsoluteX", "AbsoluteX", "AbsoluteX", "AbsoluteX",
    "Implied", "IndexedIndirect", "Implied", "IndexedIndirect", "ZeroPage", "ZeroPage", "ZeroPage", "ZeroPage", "Implied", "Immediate", "Accumulator", "Implied", "Indirect", "Absolute", "Absolute", "Absolute",
    "Relative", "IndirectIndexed", "Implied", "IndirectIndexed", "ZeroPageX", "ZeroPageX", "ZeroPageX", "ZeroPageX", "Implied", "AbsoluteY", "Implied", "AbsoluteY", "AbsoluteX", "AbsoluteX", "AbsoluteX", "AbsoluteX",
    "Immediate", "IndexedIndirect", "Immediate", "IndexedIndirect", "ZeroPage", "ZeroPage", "ZeroPage", "ZeroPage", "Implied", "Immediate", "Implied", "Implied", "Absolute", "Absolute", "Absolute", "Absolute",
    "Relative", "IndirectIndexed", "Implied", "Implied", "ZeroPageX", "ZeroPageX", "ZeroPageY", "ZeroPageY", "Implied", "AbsoluteY", "Implied", "Implied", "Implied", "AbsoluteX", "Implied", "Implied",
    "Immediate", "IndexedIndirect", "Immediate", "IndexedIndirect", "ZeroPage", "ZeroPage", "ZeroPage", "ZeroPage", "Implied", "Immediate", "Implied", "Implied", "Absolute", "Absolute", "Absolute", "Absolute",
    "Relative", "IndirectIndexed", "Implied", "IndirectIndexed", "ZeroPageX", "ZeroPageX", "ZeroPageY", "ZeroPageY", "Implied", "AbsoluteY", "Implied", "Implied", "AbsoluteX", "AbsoluteX", "AbsoluteY", "AbsoluteY",
    "Immediate", "IndexedIndirect", "Immediate", "IndexedIndirect", "ZeroPage", "ZeroPage", "ZeroPage", "ZeroPage", "Implied", "Immediate", "Implied", "Implied", "Absolute", "Absolute", "Absolute", "Absolute",
    "Relative", "IndirectIndexed", "Implied", "IndirectIndexed", "ZeroPageX", "ZeroPageX", "ZeroPageX", "ZeroPageX", "Implied", "AbsoluteY", "Implied", "AbsoluteY", "AbsoluteX", "AbsoluteX", "AbsoluteX", "AbsoluteX",
    "Immediate", "IndexedIndirect", "Immediate", "IndexedIndirect", "ZeroPage", "ZeroPage", "ZeroPage", "ZeroPage", "Implied", "Immediate", "Implied", "Immediate", "Absolute", "Absolute", "Absolute", "Absolute",
    "Relative", "IndirectIndexed", "Implied", "IndirectIndexed", "ZeroPageX", "ZeroPageX", "ZeroPageX", "ZeroPageX", "Implied", "AbsoluteY", "Implied", "AbsoluteY", "AbsoluteX", "AbsoluteX", "AbsoluteX", "AbsoluteX">>

\* The opcode each panicking match arm of Instruction::fetch prints in its
\* message "Illegal opcode 0x.. (...) at {start_pc}".
ILLEGAL_OPCODE_TEXT ==
  (11 :> 11) @@ (43 :> 43) @@ (75 :> 75) @@ (107 :> 107) @@ (139 :> 139) @@
  (147 :> 147) @@ (155 :> 155) @@ (156 :> 156) @@ (158 :> 158) @@
  (159 :> 159) @@ (171 :> 171) @@ (187 :> 187) @@ (203 :> 203)

OperandLength(mode) ==
  CASE mode \in {"Implied", "Accumulator"} -> 0
    [] mode \in {"Absolute", "AbsoluteX", "AbsoluteY", "Indirect"} -> 2
    [] OTHER -> 1

(***************************************************************************)
(* The machine the operations run on: the Cpu's fields, the bus, and the   *)
(* record of what one call did (bus transfers, interrupt sequences, the    *)
(* opcode fetched, the value an operation returns).                        *)
(*   mem    the cells of the flat bus touched so far                       *)
(*   fresh  what untouched cells hold, by the role of the load             *)
(*   fatal  "none", or the panic that ended the call                       *)
(*   diag   what the illegal-opcode panic message carries                  *)
(*   io     arguments and result of the call, for calls that have them     *)
(***************************************************************************)
NoInstruction == [op |-> "None", mode |-> "Implied", arg |-> 0]

\* impl Bus for [u8; 0x10000]: load
BusLoad(c, addr, role) ==
  LET v == IF addr \in DOMAIN c.mem THEN c.mem[addr] ELSE c.fresh[role]
  IN [c EXCEPT !.mem = (addr :> v) @@ c.mem,
               !.trace = Append(@, <<"load", addr, v, role>>),
               !.val = v]

\* impl Bus for [u8; 0x10000]: store
BusStore(c, addr, value) ==
  [c EXCEPT !.mem = (addr :> value) @@ c.mem,
            !.trace = Append(@, <<"store", addr, value, "data">>)]

Panic(c, what) == [c EXCEPT !.fatal = what]

(***************************************************************************)
(* Addressing modes (cpu/addressing.rs).  The address, or the byte loaded, *)
(* is left in val.                                                         *)
(***************************************************************************)
IndirectAddress_carriesIntoNextPage(c, arg) ==
  LET Join(low, c2) == [c2 EXCEPT !.val = AddrFromBytes(low, c2.val)]
      High(c1) == Join(c1.val, BusLoad(c1, AddU8(arg, 1), "data"))
  IN High(BusLoad(c, arg, "data"))

IndirectAddress(c, arg) ==
  LET Join(low, c2) == [c2 EXCEPT !.val = AddrFromBytes(low, c2.val)]
      High(c1) ==
        Join(c1.val,
             BusLoad(c1, AddrFromBytes(WrappingAdd8(AddrLow(arg), 1), AddrHigh(arg)), "data"))
  IN High(BusLoad(c, arg, "data"))

IndexedIndirectAddress(c, arg) ==
  LET Join(low, c2) == [c2 EXCEPT !.val = AddrFromBytes(low, c2.val)]
      High(c1) ==
        Join(c1.val, BusLoad(c1, WrappingAdd8(WrappingAdd8(arg, c.x), 1), "data"))
  IN High(BusLoad(c, WrappingAdd8(arg, c.x), "data"))

\* IndirectIndexed::address as it would be if the pointer's high byte were
\* read at d + 1 without wrapping.
IndirectIndexedAddress_carriesOutOfZeroPage(c, arg) ==
  LET Join(low, c2) == [c2 EXCEPT !.val = AddU8(AddrFromBytes(low, c2.val), c.y)]
      High(c1) == Join(c1.val, BusLoad(c1, AddU8(arg, 1), "data"))
  IN High(BusLoad(c, arg, "data"))

IndirectIndexedAddress(c, arg) ==
  LET Join(low, c2) == [c2 EXCEPT !.val = AddU8(AddrFromBytes(low, c2.val), c.y)]
      High(c1) == Join(c1.val, BusLoad(c1, WrappingAdd8(arg, 1), "data"))
  IN High(BusLoad(c, arg, "data"))

RelativeAddress(c, arg) == [c EXCEPT !.val = AddI8(c.pc, arg)]

AmAddress(c, ins) ==
  CASE ins.mode = "ZeroPage" -> [c EXCEPT !.val = ins.arg]
    [] ins.mode = "ZeroPageX" -> [c EXCEPT !.val = WrappingAdd8(c.x, ins.arg)]
    [] ins.mode = "ZeroPageY" -> [c EXCEPT !.val = WrappingAdd8(c.y, ins.arg)]
    [] ins.mode = "Relative" -> RelativeAddress(c, ins.arg)
    [] ins.mode = "Absolute" -> [c EXCEPT !.val = ins.arg]
    [] ins.mode = "AbsoluteX" -> [c EXCEPT !.val = AddU8(ins.arg, c.x)]
    [] ins.mode = "AbsoluteY" -> [c EXCEPT !.val = AddU8(ins.arg, c.y)]
    [] ins.mode = "Indirect" -> IndirectAddress(c, ins.arg)
    [] ins.mode = "IndexedIndirect" -> IndexedIndirectAddress(c, ins.arg)
    [] ins.mode = "IndirectIndexed" -> IndirectIndexedAddress(c, ins.arg)
    [] OTHER -> Panic(c, "address")

AmLoad(c, ins) ==
  LET At(c1) == IF c1.fatal # "none" THEN c1 ELSE BusLoad(c1, c1.val, "data")
  IN CASE ins.mode = "Accumulator" -> [c EXCEPT !.val = c.a]
       [] ins.mode = "Immediate" -> [c EXCEPT !.val = ins.arg]
       [] OTHER -> At(AmAddress(c, ins))

AmStore_storesNextCell(c, ins, value) ==
  LET At(c1) == IF c1.fatal # "none" THEN c1 ELSE BusStore(c1, AddU8(c1.val, 1), value)
  IN CASE ins.mode = "Accumulator" -> [c EXCEPT !.a = value]
       [] OTHER -> At(AmAddress(c, ins))

AmStore(c, ins, value) ==
  LET At(c1) == IF c1.fatal # "none" THEN c1 ELSE BusStore(c1, c1.val, value)
  IN CASE ins.mode = "Accumulator" -> [c EXCEPT !.a = value]
       [] OTHER -> At(AmAddress(c, ins))

(***************************************************************************)
(* Instruction::fetch, read_byte, read_addr (cpu/instruction.rs).          *)
(***************************************************************************)
read_byte(c) == [BusLoad(c, c.pc, "lo") EXCEPT !.pc = AddU8(c.pc, 1)]

read_addr_skipsOneByte(c) ==
  LET Join(lsb, c2) ==
        [c2 EXCEPT !.pc = AddU8(c.pc, 1), !.val = AddrFromBytes(lsb, c2.val)]
      Msb(c1) == Join(c1.val, BusLoad(c1, AddU8(c.pc, 1), "hi"))
  IN Msb(BusLoad(c, c.pc, "lo"))

read_addr(c) ==
  LET Join(lsb, c2) ==
        [c2 EXCEPT !.pc = AddU8(c.pc, 2), !.val = AddrFromBytes(lsb, c2.val)]
      Msb(c1) == Join(c1.val, BusLoad(c1, AddU8(c.pc, 1), "hi"))
  IN Msb(BusLoad(c, c.pc, "lo"))

Fetch(c) ==
  LET Decode(c1) ==
        LET opcode == c1.val
            c2 == [c1 EXCEPT !.pc = AddU8(c.pc, 1), !.opcode = opcode]
            op == OPCODE_OP[opcode + 1]
            mode == OPCODE_MODE[opcode + 1]
            len == OperandLength(mode)
            Build(c3) ==
              [c3 EXCEPT !.ins = [op |-> op, mode |-> mode,
                                  arg |-> IF mode = "Relative"
                                            THEN AsI8(c3.val) ELSE c3.val]]
        IN IF op = "Illegal"
             THEN [Panic(c2, "illegal") EXCEPT
                     !.diag = <<ILLEGAL_OPCODE_TEXT[opcode], c.pc>>]
             ELSE Build(CASE len = 0 -> [c2 EXCEPT !.val = 0]
                          [] len = 1 -> read_byte(c2)
                          [] len = 2 -> read_addr(c2))
  IN Decode(BusLoad(c, c.pc, "op"))

(***************************************************************************)
(* Stack and interrupts (cpu/mod.rs).                                      *)
(***************************************************************************)
stack(c) == AddU8(STACK_START, c.s)

push_stack_decrementsFirst(c, value) ==
  [BusStore(c, AddU8(STACK_START, WrappingSub8(c.s, 1)), value)
     EXCEPT !.s = WrappingSub8(c.s, 1)]

push_stack(c, value) ==
  [BusStore(c, stack(c), value) EXCEPT !.s = WrappingSub8(c.s, 1)]

pull_stack(c) ==
  LET Load(c1) == BusLoad(c1, stack(c1), "data")
  IN Load([c EXCEPT !.s = WrappingAdd8(c.s, 1)])

pull_flags_keepsPulledBits(c) ==
  LET Assign(c1) == [c1 EXCEPT !.p = BitAnd(c1.val, BitNot(BREAK))]
  IN Assign(pull_stack(c))

pull_flags(c) ==
  LET Assign(c1) == [c1 EXCEPT !.p = BitAnd(BitOr(c1.val, UNUSED), BitNot(BREAK))]
  IN Assign(pull_stack(c))

check_zero_or_negative(c, value) ==
  [c EXCEPT !.p = SetFlag(SetFlag(c.p, ZERO, value = 0), NEGATIVE, value > 127)]

interrupt_disablesBeforePush(c, vector, brk) ==
  LET ret == AddU8(c.pc, 1)
      Jump(low, c6) ==
        [c6 EXCEPT !.pc = AddrFromBytes(low, c6.val),
                   !.cycle = c6.cycle + 7,
                   !.ints = Append(@, [vector |-> vector, brk |-> brk])]
      High(c5) == Jump(c5.val, BusLoad(c5, vector[2], "vechi"))
      PushFlags(c3) ==
        High(BusLoad(push_stack(c3, SetFlag(c3.p, BREAK, brk)), vector[1], "veclo"))
      Disable(c2) == PushFlags([c2 EXCEPT !.p = Insert(c2.p, INTERRUPT_DISABLE)])
  IN Disable(push_stack(push_stack(c, AddrHigh(ret)), AddrLow(ret)))

interrupt_freeOfCharge(c, vector, brk) ==
  LET ret == AddU8(c.pc, 1)
      Jump(low, c6) ==
        [c6 EXCEPT !.pc = AddrFromBytes(low, c6.val),
                   !.ints = Append(@, [vector |-> vector, brk |-> brk])]
      High(c5) == Jump(c5.val, BusLoad(c5, vector[2], "vechi"))
      Disable(c3) ==
        High(BusLoad([c3 EXCEPT !.p = Insert(c3.p, INTERRUPT_DISABLE)], vector[1], "veclo"))
      PushFlags(c2) == Disable(push_stack(c2, SetFlag(c2.p, BREAK, brk)))
  IN PushFlags(push_stack(push_stack(c, AddrHigh(ret)), AddrLow(ret)))

interrupt(c, vector, brk) ==
  LET ret == AddU8(c.pc, 1)
      Jump(low, c6) ==
        [c6 EXCEPT !.pc = AddrFromBytes(low, c6.val),
                   !.cycle = c6.cycle + 7,
                   !.ints = Append(@, [vector |-> vector, brk |-> brk])]
      High(c5) == Jump(c5.val, BusLoad(c5, vector[2], "vechi"))
      Disable(c3) ==
        High(BusLoad([c3 EXCEPT !.p = Insert(c3.p, INTERRUPT_DISABLE)], vector[1], "veclo"))
      PushFlags(c2) == Disable(push_stack(c2, SetFlag(c2.p, BREAK, brk)))
  IN PushFlags(push_stack(push_stack(c, AddrHigh(ret)), AddrLow(ret)))

irq_alwaysLatches(c) ==
  IF Contains(c.p, INTERRUPT_DISABLE)
    THEN [c EXCEPT !.irq_pending = TRUE]
    ELSE [interrupt(c, IRQ_VECTOR, FALSE) EXCEPT !.irq_pending = TRUE]

irq(c) ==
  IF Contains(c.p, INTERRUPT_DISABLE)
    THEN [c EXCEPT !.irq_pending = TRUE]
    ELSE interrupt(c, IRQ_VECTOR, FALSE)

\* nmi as it would be if it took the place of the latched irq.
nmi_dropsPendingIrq(c) ==
  [interrupt(c, NMI_VECTOR, FALSE) EXCEPT !.irq_pending = FALSE]

nmi(c) == interrupt(c, NMI_VECTOR, FALSE)

reset_dropsPendingIrq(c) ==
  LET Jump(low, c3) ==
        [c3 EXCEPT !.pc = AddrFromBytes(low, c3.val),
                   !.cycle = 7,
                   !.cycles_remaining = 0]
      High(c2) == Jump(c2.val, BusLoad(c2, RESET_VECTOR[2], "vechi"))
  IN High(BusLoad([c EXCEPT !.p = Insert(c.p, INTERRUPT_DISABLE), !.irq_pending = FALSE],
                  RESET_VECTOR[1], "veclo"))

reset(c) ==
  LET Jump(low, c3) ==
        [c3 EXCEPT !.pc = AddrFromBytes(low, c3.val),
                   !.cycle = 7,
                   !.cycles_remaining = 0]
      High(c2) == Jump(c2.val, BusLoad(c2, RESET_VECTOR[2], "vechi"))
  IN High(BusLoad([c EXCEPT !.p = Insert(c.p, INTERRUPT_DISABLE)],
                  RESET_VECTOR[1], "veclo"))

(***************************************************************************)
(* The operations of the instruction set (cpu/mod.rs, second impl Cpu).    *)
(***************************************************************************)
twos_complement_overflow_ofOperandsOnly(n, m, res) ==
  BitAnd(BitAnd(BitXor(n, res), BitXor(m, n)), 128) > 0

twos_complement_overflow(n, m, res) ==
  BitAnd(BitAnd(BitXor(n, res), BitXor(m, res)), 128) > 0

\* The guard every operation starts with: after a panic nothing more runs.
Ok(c) == c.fatal = "none"

\* adc as it would be if the DECIMAL flag reached the adder.
adc_decimalAdjusts(c, ins) ==
  LET Add(c1) ==
        LET value == c1.val
            carry_in == IF Contains(c1.p, CARRY) THEN 1 ELSE 0
            sum == c1.a + value + carry_in
            carry_out == sum > 255
            res == (IF Contains(c1.p, DECIMAL) THEN sum + 6 ELSE sum) % 256
            overflow == twos_complement_overflow(c1.a, value, res)
        IN IF Ok(c1)
             THEN check_zero_or_negative(
                    [c1 EXCEPT !.p = SetFlag(SetFlag(c1.p, OVERFLOW, overflow),
                                             CARRY, carry_out),
                               !.a = res],
                    res)
             ELSE c1
  IN Add(AmLoad(c, ins))

adc(c, ins) ==
  LET Add(c1) ==
        LET value == c1.val
            carry_in == IF Contains(c1.p, CARRY) THEN 1 ELSE 0
            sum == c1.a + value + carry_in
            carry_out == sum > 255
            res == sum % 256
            overflow == twos_complement_overflow(c1.a, value, res)
        IN IF Ok(c1)
             THEN check_zero_or_negative(
                    [c1 EXCEPT !.p = SetFlag(SetFlag(c1.p, OVERFLOW, overflow),
                                             CARRY, carry_out),
                               !.a = res],
                    res)
             ELSE c1
  IN Add(AmLoad(c, ins))

sbc_borrowsOnCarry(c, ins) ==
  LET Subtract(c1) ==
        LET value == c1.val
            carry_in == IF Contains(c1.p, CARRY) THEN 1 ELSE 0
            diff == c1.a - value - carry_in
            carry_out == diff >= 0
            res == diff % 256
            overflow == twos_complement_overflow(c1.a, BitNot(value), res)
        IN IF Ok(c1)
             THEN check_zero_or_negative(
                    [c1 EXCEPT !.p = SetFlag(SetFlag(c1.p, OVERFLOW, overflow),
                                             CARRY, carry_out),
                               !.a = res],
                    res)
             ELSE c1
  IN Subtract(AmLoad(c, ins))

sbc(c, ins) ==
  LET Subtract(c1) ==
        LET value == c1.val
            carry_in == IF Contains(c1.p, CARRY) THEN 0 ELSE 1
            diff == c1.a - value - carry_in
            carry_out == diff >= 0
            res == diff % 256
            overflow == twos_complement_overflow(c1.a, BitNot(value), res)
        IN IF Ok(c1)
             THEN check_zero_or_negative(
                    [c1 EXCEPT !.p = SetFlag(SetFlag(c1.p, OVERFLOW, overflow),
                                             CARRY, carry_out),
                               !.a = res],
                    res)
             ELSE c1
  IN Subtract(AmLoad(c, ins))

\* The tail shared by AND, ORA, EOR, LDA and PLA: assign the accumulator,
\* then set the flags.  c1 is the machine after the load.
SetA(c1, res) ==
  IF Ok(c1) THEN check_zero_or_negative([c1 EXCEPT !.a = res], res) ELSE c1

and(c, ins) ==
  LET Combine(c1) == SetA(c1, BitAnd(c1.a, c1.val))
  IN Combine(AmLoad(c, ins))

ora(c, ins) ==
  LET Combine(c1) == SetA(c1, BitOr(c1.a, c1.val))
  IN Combine(AmLoad(c, ins))

eor(c, ins) ==
  LET Combine(c1) == SetA(c1, BitXor(c1.a, c1.val))
  IN Combine(AmLoad(c, ins))

\* The tail shared by ASL, LSR, ROL, ROR, INC and DEC: store the result
\* through the same mode, then set the flags.  c1 is the machine after the
\* load.
StoreResult(c1, ins, res, setsCarry, carry) ==
  LET Flags(c2) ==
        IF ~Ok(c2) THEN c2
        ELSE check_zero_or_negative(
               IF setsCarry THEN [c2 EXCEPT !.p = SetFlag(c2.p, CARRY, carry)] ELSE c2,
               res)
  IN IF ~Ok(c1) THEN c1 ELSE Flags(AmStore(c1, ins, res))

asl(c, ins) ==
  LET Shift(c1) == StoreResult(c1, ins, (c1.val * 2) % 256, TRUE, c1.val > 127)
  IN Shift(AmLoad(c, ins))

lsr(c, ins) ==
  LET Shift(c1) == StoreResult(c1, ins, c1.val \div 2, TRUE, c1.val % 2 = 1)
  IN Shift(AmLoad(c, ins))

rol(c, ins) ==
  LET Rotate(c1) ==
        LET old_carry == IF Contains(c1.p, CARRY) THEN 1 ELSE 0
        IN StoreResult(c1, ins, BitOr((c1.val * 2) % 256, old_carry), TRUE, c1.val > 127)
  IN Rotate(AmLoad(c, ins))

ror(c, ins) ==
  LET Rotate(c1) ==
        LET old_carry == IF Contains(c1.p, CARRY) THEN 1 ELSE 0
        IN StoreResult(c1, ins, BitOr(c1.val \div 2, old_carry * 128), TRUE, c1.val % 2 = 1)
  IN Rotate(AmLoad(c, ins))

inc(c, ins) ==
  LET Bump(c1) == StoreResult(c1, ins, WrappingAdd8(c1.val, 1), FALSE, FALSE)
  IN Bump(AmLoad(c, ins))

dec(c, ins) ==
  LET Bump(c1) == StoreResult(c1, ins, WrappingSub8(c1.val, 1), FALSE, FALSE)
  IN Bump(AmLoad(c, ins))

\* The tail shared by the branches, JMP and JSR: the program counter takes
\* the address the mode names.
JumpTo(c1) == IF Ok(c1) THEN [c1 EXCEPT !.pc = c1.val] ELSE c1

\* bcc, bcs, beq, bmi, bne, bpl, bvc, bvs
branch(c, ins, flag, polarity) ==
  IF Contains(c.p, flag) = polarity
    THEN JumpTo(AmAddress(c, ins))
    ELSE c

bit(c, ins) ==
  LET Test(c1) ==
        LET value == c1.val
            res == BitAnd(c1.a, value)
            p1 == SetFlag(c1.p, ZERO, res = 0)
            p2 == SetFlag(p1, OVERFLOW, BitAnd(value, 64) > 0)
            p3 == SetFlag(p2, NEGATIVE, BitAnd(value, 128) > 0)
        IN IF Ok(c1) THEN [c1 EXCEPT !.p = p3] ELSE c1
  IN Test(AmLoad(c, ins))

brk(c) == interrupt(c, IRQ_VECTOR, TRUE)

\* cmp, cpx, cpy
compare(c, ins, reg) ==
  LET Compare(c1) ==
        LET value == c1.val
            res == WrappingSub8(reg, value)
            overflowed == reg < value
        IN IF Ok(c1)
             THEN check_zero_or_negative(
                    [c1 EXCEPT !.p = SetFlag(c1.p, CARRY, ~overflowed)], res)
             ELSE c1
  IN Compare(AmLoad(c, ins))

cmp(c, ins) == compare(c, ins, c.a)

cpx(c, ins) == compare(c, ins, c.x)

cpy(c, ins) == compare(c, ins, c.y)

dex(c) == check_zero_or_negative([c EXCEPT !.x = WrappingSub8(c.x, 1)], WrappingSub8(c.x, 1))

dey(c) == check_zero_or_negative([c EXCEPT !.y = WrappingSub8(c.y, 1)], WrappingSub8(c.y, 1))

inx(c) == check_zero_or_negative([c EXCEPT !.x = WrappingAdd8(c.x, 1)], WrappingAdd8(c.x, 1))

iny(c) == check_zero_or_negative([c EXCEPT !.y = WrappingAdd8(c.y, 1)], WrappingAdd8(c.y, 1))

jmp(c, ins) == JumpTo(AmAddress(c, ins))

jsr_pushesNextInstruction(c, ins) ==
  LET ret == c.pc
  IN JumpTo(AmAddress(push_stack(push_stack(c, AddrHigh(ret)), AddrLow(ret)), ins))

jsr(c, ins) ==
  LET ret == SubU8(c.pc, 1)
  IN JumpTo(AmAddress(push_stack(push_stack(c, AddrHigh(ret)), AddrLow(ret)), ins))

lda(c, ins) ==
  LET Assign(c1) == SetA(c1, c1.val)
  IN Assign(AmLoad(c, ins))

ldx(c, ins) ==
  LET Assign(c1) ==
        IF Ok(c1) THEN check_zero_or_negative([c1 EXCEPT !.x = c1.val], c1.val) ELSE c1
  IN Assign(AmLoad(c, ins))

ldy(c, ins) ==
  LET Assign(c1) ==
        IF Ok(c1) THEN check_zero_or_negative([c1 EXCEPT !.y = c1.val], c1.val) ELSE c1
  IN Assign(AmLoad(c, ins))

pha(c) == push_stack(c, c.a)

php_pushesPlainP(c) == push_stack(c, c.p)

php(c) == push_stack(c, BitOr(BitOr(c.p, UNUSED), BREAK))

pla(c) ==
  LET Assign(c1) == SetA(c1, c1.val)
  IN Assign(pull_stack(c))

plp(c) == pull_flags(c)

rti(c) ==
  LET Join(low, c3) == [c3 EXCEPT !.pc = AddrFromBytes(low, c3.val)]
      High(c2) == Join(c2.val, pull_stack(c2))
  IN High(pull_stack(pull_flags(c)))

rts(c) ==
  LET Join(low, c2) == [c2 EXCEPT !.pc = AddU8(AddrFromBytes(low, c2.val), 1)]
      High(c1) == Join(c1.val, pull_stack(c1))
  IN High(pull_stack(c))

sta(c, ins) == AmStore(c, ins, c.a)

stx(c, ins) == AmStore(c, ins, c.x)

sty(c, ins) == AmStore(c, ins, c.y)

tax(c) == check_zero_or_negative([c EXCEPT !.x = c.a], c.a)

tay(c) == check_zero_or_negative([c EXCEPT !.y = c.a], c.a)

tsx(c) == check_zero_or_negative([c EXCEPT !.x = c.s], c.s)

txa(c) == check_zero_or_negative([c EXCEPT !.a = c.x], c.x)

txs(c) == [c EXCEPT !.s = c.x]

tya(c) == check_zero_or_negative([c EXCEPT !.a = c.y], c.y)

\* The undocumented compositions: the first operation, then the second on a
\* clone of the same addressing mode.
undoc_dcp(c, ins) ==
  LET Second(c1) == IF Ok(c1) THEN cmp(c1, ins) ELSE c1
  IN Second(dec(c, ins))

undoc_isb(c, ins) ==
  LET Second(c1) == IF Ok(c1) THEN sbc(c1, ins) ELSE c1
  IN Second(inc(c, ins))

undoc_lax(c, ins) ==
  LET Second(c1) == IF Ok(c1) THEN ldx(c1, ins) ELSE c1
  IN Second(lda(c, ins))

undoc_rla(c, ins) ==
  LET Second(c1) == IF Ok(c1) THEN and(c1, ins) ELSE c1
  IN Second(rol(c, ins))

undoc_rra(c, ins) ==
  LET Second(c1) == IF Ok(c1) THEN adc(c1, ins) ELSE c1
  IN Second(ror(c, ins))

undoc_sax(c, ins) == AmStore(c, ins, BitAnd(c.a, c.x))

undoc_slo(c, ins) ==
  LET Second(c1) == IF Ok(c1) THEN ora(c1, ins) ELSE c1
  IN Second(asl(c, ins))

undoc_sre(c, ins) ==
  LET Second(c1) == IF Ok(c1) THEN eor(c1, ins) ELSE c1
  IN Second(lsr(c, ins))

\* Cpu::exec
exec(c, ins) ==
  LET op == ins.op
  IN CASE op = "Adc" -> adc(c, ins)
       [] op = "And" -> and(c, ins)
       [] op = "Asl" -> asl(c, ins)
       [] op = "Bcc" -> branch(c, ins, CARRY, FALSE)
       [] op = "Bcs" -> branch(c, ins, CARRY, TRUE)
       [] op = "Beq" -> branch(c, ins, ZERO, TRUE)
       [] op = "Bit" -> bit(c, ins)
       [] op = "Bmi" -> branch(c, ins, NEGATIVE, TRUE)
       [] op = "Bne" -> branch(c, ins, ZERO, FALSE)
       [] op = "Bpl" -> branch(c, ins, NEGATIVE, FALSE)
       [] op = "Brk" -> brk(c)
       [] op = "Bvc" -> branch(c, ins, OVERFLOW, FALSE)
       [] op = "Bvs" -> branch(c, ins, OVERFLOW, TRUE)
       [] op = "Clc" -> [c EXCEPT !.p = Remove(c.p, CARRY)]
       [] op = "Cld" -> [c EXCEPT !.p = Remove(c.p, DECIMAL)]
       [] op = "Cli" -> [c EXCEPT !.p = Remove(c.p, INTERRUPT_DISABLE)]
       [] op = "Clv" -> [c EXCEPT !.p = Remove(c.p, OVERFLOW)]
       [] op = "Cmp" -> cmp(c, ins)
       [] op = "Cpx" -> cpx(c, ins)
       [] op = "Cpy" -> cpy(c, ins)
       [] op = "Dec" -> dec(c, ins)
       [] op = "Dex" -> dex(c)
       [] op = "Dey" -> dey(c)
       [] op = "Eor" -> eor(c, ins)
       [] op = "Inc" -> inc(c, ins)
       [] op = "Inx" -> inx(c)
       [] op = "Iny" -> iny(c)
       [] op = "Jmp" -> jmp(c, ins)
       [] op = "Jsr" -> jsr(c, ins)
       [] op = "Lda" -> lda(c, ins)
       [] op = "Ldx" -> ldx(c, ins)
       [] op = "Ldy" -> ldy(c, ins)
       [] op = "Lsr" -> lsr(c, ins)
       [] op = "Nop" -> c
       [] op = "Ora" -> ora(c, ins)
       [] op = "Pha" -> pha(c)
       [] op = "Php" -> php(c)
       [] op = "Pla" -> pla(c)
       [] op = "Plp" -> plp(c)
       [] op = "Rol" -> rol(c, ins)
       [] op = "Ror" -> ror(c, ins)
       [] op = "Rti" -> rti(c)
       [] op = "Rts" -> rts(c)
       [] op = "Sbc" -> sbc(c, ins)
       [] op = "Sec" -> [c EXCEPT !.p = Insert(c.p, CARRY)]
       [] op = "Sed" -> [c EXCEPT !.p = Insert(c.p, DECIMAL)]
       [] op = "Sei" -> [c EXCEPT !.p = Insert(c.p, INTERRUPT_DISABLE)]
       [] op = "Sta" -> sta(c, ins)
       [] op = "Stx" -> stx(c, ins)
       [] op = "Sty" -> sty(c, ins)
       [] op = "Tax" -> tax(c)
       [] op = "Tay" -> tay(c)
       [] op = "Tsx" -> tsx(c)
       [] op = "Txa" -> txa(c)
       [] op = "Txs" -> txs(c)
       [] op = "Tya" -> tya(c)
       [] op = "UDcp" -> undoc_dcp(c, ins)
       [] op = "UIsb" -> undoc_isb(c, ins)
       [] op = "ULax" -> undoc_lax(c, ins)
       [] op = "UNop" -> c
       [] op = "URla" -> undoc_rla(c, ins)
       [] op = "URra" -> undoc_rra(c, ins)
       [] op = "USax" -> undoc_sax(c, ins)
       [] op = "USbc" -> sbc(c, ins)
       [] op = "USlo" -> undoc_slo(c, ins)
       [] op = "USre" -> undoc_sre(c, ins)
       [] op = "UStp" -> Panic(c, "stp")

(***************************************************************************)
(* Cpu::step and Cpu::tick.  ret is the cycle cost step returns.           *)
(***************************************************************************)
ServicePending_keepsLatch(c) ==
  IF c.irq_pending /\ ~Contains(c.p, INTERRUPT_DISABLE)
    THEN irq(c)
    ELSE c

ServicePending(c) ==
  IF c.irq_pending /\ ~Contains(c.p, INTERRUPT_DISABLE)
    THEN irq([c EXCEPT !.irq_pending = FALSE])
    ELSE c

LoopCheck_comparesNextOpcode(saved, c) ==
  IF AddU8(saved, 1) = c.pc THEN Panic(c, "loop") ELSE c

LoopCheck(saved, c) ==
  IF saved = c.pc THEN Panic(c, "loop") ELSE c

step(c) ==
  LET Cost(c4) == IF Ok(c4) THEN [c4 EXCEPT !.ret = CYCLE_TABLE[c4.opcode + 1]] ELSE c4
      Check(c3) == Cost(IF Ok(c3) THEN LoopCheck(c.pc, c3) ELSE c3)
      Execute(c2) == Check(IF Ok(c2) THEN exec(c2, c2.ins) ELSE c2)
  IN Execute(Fetch(ServicePending(c)))

tick_servicesWhileWaiting(c) ==
  LET Wait(c1) ==
        IF Ok(c1)
          THEN [c1 EXCEPT !.cycles_remaining = c1.ret - 1, !.cycle = c1.cycle + 1]
          ELSE c1
      Count(c1) ==
        [c1 EXCEPT !.cycles_remaining = c.cycles_remaining - 1, !.cycle = c1.cycle + 1]
  IN IF c.cycles_remaining = 0
       THEN Wait(step(c))
       ELSE Count(ServicePending(c))

\* tick as it would be if it counted down without looking at
\* cycles_remaining: the u8 wraps below zero.
tick_countsDownPastZero(c) ==
  [c EXCEPT !.cycles_remaining = (c.cycles_remaining - 1) % 256, !.cycle = c.cycle + 1]

tick_waitsFullCost(c) ==
  LET Wait(c1) ==
        IF Ok(c1)
          THEN [c1 EXCEPT !.cycles_remaining = c1.ret, !.cycle = c1.cycle + 1]
          ELSE c1
  IN IF c.cycles_remaining = 0
       THEN Wait(step(c))
       ELSE [c EXCEPT !.cycles_remaining = c.cycles_remaining - 1, !.cycle = c.cycle + 1]

tick(c) ==
  LET Wait(c1) ==
        IF Ok(c1)
          THEN [c1 EXCEPT !.cycles_remaining = c1.ret - 1, !.cycle = c1.cycle + 1]
          ELSE c1
  IN IF c.cycles_remaining = 0
       THEN Wait(step(c))
       ELSE [c EXCEPT !.cycles_remaining = c.cycles_remaining - 1, !.cycle = c.cycle + 1]

(***************************************************************************)
(* The state: the fields of Cpu and Registers, the bus, and the record of  *)
(* the last call.                                                          *)
(***************************************************************************)
VARIABLES
  a, x, y, s, pc, p,    \* Registers
  irq_pending,          \* Cpu.irq_pending
  cycles_remaining,     \* Cpu.cycles_remaining
  cycle,                \* Cpu.cycle
  memory,               \* the cells of the bus touched so far
  fatal,                \* "none", or the panic that ended the last call
  diag,                 \* opcode and address in the illegal-opcode message
  io,                   \* arguments and result of the last call, if it has any
  call,                 \* the last call made: new, reset, step, tick, irq, nmi
  trace,                \* the bus transfers of the last call, in order
  ints,                 \* the interrupt sequences of the last call, in order
  opcode,               \* the opcode the last call fetched, -1 if none
  calls,                \* number of calls made so far
  nes                   \* Ram, Ppu and cartridge behind Memory; <<>> on a flat bus

vars == <<a, x, y, s, pc, p, irq_pending, cycles_remaining, cycle, memory,
          fatal, diag, io, call, trace, ints, opcode, calls, nes>>

Fresh ==
  [op : OpcodeBytes, lo : OperandLowBytes, hi : OperandHighBytes,
   data : DataBytes, veclo : VectorLowBytes, vechi : VectorHighBytes]

\* irq, nmi and reset load nothing but a vector.
FreshVector ==
  [op : {0}, lo : {0}, hi : {0}, data : {0},
   veclo : VectorLowBytes, vechi : VectorHighBytes]

\* The machine a call starts on.
Machine(fresh) ==
  [a |-> a, x |-> x, y |-> y, s |-> s, pc |-> pc, p |-> p,
   irq_pending |-> irq_pending, cycles_remaining |-> cycles_remaining,
   cycle |-> cycle, mem |-> memory, fresh |-> fresh, fatal |-> "none",
   diag |-> <<>>, io |-> <<>>, trace |-> <<>>, ints |-> <<>>, opcode |-> -1, ins |-> NoInstruction,
   val |-> 0, ret |-> 0]

\* The state a call leaves.
Commit(c, name) ==
  /\ a' = c.a /\ x' = c.x /\ y' = c.y /\ s' = c.s /\ pc' = c.pc /\ p' = c.p
  /\ irq_pending' = c.irq_pending
  /\ cycles_remaining' = c.cycles_remaining
  /\ cycle' = c.cycle
  /\ memory' = c.mem
  /\ fatal' = c.fatal
  /\ diag' = c.diag
  /\ io' = c.io
  /\ trace' = c.trace
  /\ ints' = c.ints
  /\ opcode' = c.opcode
  /\ call' = name
  /\ calls' = calls + 1
  /\ nes' = nes

\* Cpu::new with Registers::new and Flags::default
Init ==
  /\ a = 0 /\ x = 0 /\ y = 0
  /\ s = 253
  /\ pc = 0
  /\ p = FlagsDefault
  /\ irq_pending = FALSE
  /\ cycles_remaining = 0
  /\ cycle = 0
  /\ memory = [addr \in {} |-> 0]
  /\ fatal = "none"
  /\ diag = <<>>
  /\ io = <<>>
  /\ call = "new"
  /\ trace = <<>>
  /\ ints = <<>>
  /\ opcode = -1
  /\ calls = 0
  /\ nes = <<>>

\* A panic ends the program; otherwise the driver may make another call.
Running == fatal = "none" /\ calls < MaxCalls

Reset == Running /\ \E f \in FreshVector : Commit(reset(Machine(f)), "reset")

Step == Running /\ \E f \in Fresh : Commit(step(Machine(f)), "step")

Tick == Running /\ \E f \in Fresh : Commit(tick(Machine(f)), "tick")

Irq == Running /\ \E f \in FreshVector : Commit(irq(Machine(f)), "irq")

Nmi == Running /\ \E f \in FreshVector : Commit(nmi(Machine(f)), "nmi")

Next == Reset \/ Step \/ Tick \/ Irq \/ Nmi

Spec == Init /\ [][Next]_vars

TypeOK ==
  /\ a \in 0..255 /\ x \in 0..255 /\ y \in 0..255 /\ s \in 0..255
  /\ pc \in 0..65535 /\ p \in 0..255
  /\ irq_pending \in BOOLEAN
  /\ cycles_remaining \in 0..255
  /\ cycle \in Nat
  /\ DOMAIN memory \subseteq 0..65535
  /\ \A addr \in DOMAIN memory : memory[addr] \in 0..255
  /\ fatal \in {"none", "loop", "illegal", "stp", "address"}

(***************************************************************************)
(* Vocabulary of the properties.  A property about a call relates the      *)
(* state before it (unprimed) to the state after it (primed); trace' and   *)
(* ints' tell what the call did on the bus.                                *)
(***************************************************************************)
\* The call just made ran Cpu::step: a step call, or a tick that found
\* cycles_remaining at 0.
StepRan == call' = "step" \/ (call' = "tick" /\ cycles_remaining = 0)

\* The opcode fetches among the transfers of a call.
OpFetches(tr) == {i \in DOMAIN tr : tr[i][1] = "load" /\ tr[i][4] = "op"}

\* No cell known before the call holds another byte after it.
MemoryKept ==
  /\ DOMAIN memory \subseteq DOMAIN memory'
  /\ \A addr \in DOMAIN memory : memory'[addr] = memory[addr]

\* Transfers k .. k+4 of tr are the interrupt sequence entered with the
\* given PC, S and P: PC+1 high, PC+1 low, P with BREAK = isBrk, the vector.
InterruptAt(tr, k, entryPc, entryS, entryP, vector, isBrk) ==
  LET ret == (entryPc + 1) % 65536
  IN /\ Len(tr) >= k + 4
     /\ tr[k] = <<"store", 256 + entryS, ret \div 256, "data">>
     /\ tr[k + 1] = <<"store", 256 + ((entryS - 1) % 256), ret % 256, "data">>
     /\ tr[k + 2][1] = "store"
     /\ tr[k + 2][2] = 256 + ((entryS - 2) % 256)
     /\ \A i \in 0..7 :
          Bit(tr[k + 2][3], i) = IF i = 4 THEN (IF isBrk THEN 1 ELSE 0) ELSE Bit(entryP, i)
     /\ tr[k + 3][1] = "load" /\ tr[k + 3][2] = vector[1]
     /\ tr[k + 4][1] = "load" /\ tr[k + 4][2] = vector[2]

\* The registers after the interrupt sequence at transfers k .. k+4.
InterruptDone(tr, k, entryS, entryP) ==
  /\ s' = (entryS - 3) % 256
  /\ pc' = tr[k + 3][3] + 256 * tr[k + 4][3]
  /\ Bit(p', 2) = 1
  /\ \A i \in (0..7) \ {2} : Bit(p', i) = Bit(entryP, i)
  /\ a' = a /\ x' = x /\ y' = y

(***************************************************************************)
(* C1.  In every reachable state bit 4 (BREAK) of the live P register is   *)
(* 0.  Cpu::new() builds P from Flags::default(), which is ALWAYS_ON =     *)
(* BREAK | UNUSED, so the state after construction already has BREAK = 1.  *)
(***************************************************************************)
C1_BreakAlwaysClear == Bit(p, 4) = 0

(***************************************************************************)
(* C2.  In every reachable state bit 5 (UNUSED) of the live P register is  *)
(* 1, also after PLP and RTI pulled a byte whose bit 5 is 0.               *)
(***************************************************************************)
C2_UnusedAlwaysSet == Bit(p, 5) = 1

\* A PLP completed that pulled a byte with bit 5 clear.
C2_Witness ==
  /\ call \in {"step", "tick"} /\ opcode = 40 /\ fatal = "none"
  /\ Len(trace) = 2 /\ trace[2][1] = "load" /\ trace[2][2] = 256 + s
  /\ Bit(trace[2][3], 5) = 0

(***************************************************************************)
(* C3.  Immediately after Cpu::new(): A = X = Y = 0, PC = 0, S = $FD,      *)
(* P = INTERRUPT_DISABLE | UNUSED ($24), irq_pending = false,              *)
(* cycles_remaining = 0, cycle = 0.  The code leaves P = $30.              *)
(***************************************************************************)
C3_StateAfterNew ==
  call = "new" =>
    /\ a = 0 /\ x = 0 /\ y = 0 /\ pc = 0 /\ s = 253
    /\ p = 36
    /\ irq_pending = FALSE /\ cycles_remaining = 0 /\ cycle = 0

(***************************************************************************)
(* C4.  A step that begins with irq_pending and INTERRUPT_DISABLE clear    *)
(* services the IRQ before it decodes: irq_pending becomes false, exactly  *)
(* one hardware interrupt sequence runs, first of all, and the one opcode  *)
(* fetched is at the IRQ vector's target.  A step that begins with         *)
(* INTERRUPT_DISABLE set keeps irq_pending and fetches at PC.  A pending   *)
(* IRQ stays pending over every call but a step that starts with           *)
(* INTERRUPT_DISABLE clear.                                                *)
(***************************************************************************)
C4_PendingIrqServicedFirst ==
  [][/\ (StepRan /\ irq_pending /\ Bit(p, 2) = 0) =>
          /\ irq_pending' = FALSE
          /\ Cardinality({i \in DOMAIN ints' : ~ints'[i].brk}) = 1
          /\ ints'[1] = [vector |-> IRQ_VECTOR, brk |-> FALSE]
          /\ InterruptAt(trace', 1, pc, s, p, IRQ_VECTOR, FALSE)
          /\ OpFetches(trace') = {6}
          /\ trace'[6][2] = trace'[4][3] + 256 * trace'[5][3]
          /\ opcode' = trace'[6][3]
     /\ (StepRan /\ Bit(p, 2) = 1) =>
          /\ irq_pending' = irq_pending
          /\ OpFetches(trace') = {1}
          /\ trace'[1][2] = pc
          /\ opcode' = trace'[1][3]
          /\ \A i \in DOMAIN ints' : ints'[i].brk
     /\ (irq_pending /\ ~(StepRan /\ Bit(p, 2) = 0)) => irq_pending'
    ]_vars

\* A step serviced a pending IRQ and went on to the handler's instruction.
C4_Witness ==
  /\ call = "step" /\ ~irq_pending /\ opcode # -1
  /\ Len(ints) >= 1 /\ ints[1] = [vector |-> IRQ_VECTOR, brk |-> FALSE]

(***************************************************************************)
(* C5.  irq with INTERRUPT_DISABLE set only sets irq_pending: registers,   *)
(* cycle counters and memory are unchanged and the bus is not used.  irq   *)
(* with INTERRUPT_DISABLE clear performs the interrupt sequence through    *)
(* the IRQ vector with BREAK = 0 at once and leaves irq_pending as it was. *)
(***************************************************************************)
C5_IrqLatchedOrTaken ==
  [][call' = "irq" =>
       IF Bit(p, 2) = 1
         THEN /\ irq_pending'
              /\ a' = a /\ x' = x /\ y' = y /\ s' = s /\ pc' = pc /\ p' = p
              /\ cycle' = cycle /\ cycles_remaining' = cycles_remaining
              /\ memory' = memory /\ trace' = <<>>
         ELSE /\ InterruptAt(trace', 1, pc, s, p, IRQ_VECTOR, FALSE)
              /\ Len(trace') = 5
              /\ InterruptDone(trace', 1, s, p)
              /\ irq_pending' = irq_pending
    ]_vars

\* An irq arrived while interrupts were disabled and was latched.
C5_Witness ==
  call = "irq" /\ irq_pending /\ trace = <<>> /\ Bit(p, 2) = 1

C7_TickWaitsOutTheCost ==
  [][/\ (call' = "tick" /\ cycles_remaining = 0 /\ fatal' = "none") =>
          \E i \in DOMAIN trace' :
             /\ OpFetches(trace') = {i}
             /\ cycles_remaining' = CYCLE_TABLE[trace'[i][3] + 1] - 1
     /\ (call' = "tick" /\ cycles_remaining > 0) =>
          /\ cycles_remaining' = cycles_remaining - 1
          /\ OpFetches(trace') = {}
    ]_vars

\* A tick executed a BNE (2 cycles), taken or not.
C7_Witness ==
  call = "tick" /\ opcode = 208 /\ fatal = "none" /\ cycles_remaining = 1

C9_ResetFrame ==
  [][call' = "reset" =>
       /\ Bit(p', 2) = 1
       /\ \A i \in (0..7) \ {2} : Bit(p', i) = Bit(p, i)
       /\ Len(trace') = 2
       /\ trace'[1][1] = "load" /\ trace'[1][2] = 65532
       /\ trace'[2][1] = "load" /\ trace'[2][2] = 65533
       /\ pc' = trace'[1][3] + 256 * trace'[2][3]
       /\ cycle' = 7 /\ cycles_remaining' = 0
       /\ a' = a /\ x' = x /\ y' = y /\ s' = s
       /\ irq_pending' = irq_pending
       /\ MemoryKept
    ]_vars

\* A reset was made while an IRQ was latched and an instruction was in
\* progress.
C9_Witness ==
  call = "reset" /\ irq_pending /\ cycle = 7 /\ cycles_remaining = 0

(***************************************************************************)
(* C10.  As claimed: step raises the infinite-loop fatal exactly when the  *)
(* PC after the instruction equals the PC saved at the start of the step,  *)
(* and every executed branch or JMP that leaves PC at its own address is   *)
(* reported by the step that executes it.                                  *)
(***************************************************************************)
JumpOpcodes == {76, 108, 16, 48, 80, 112, 144, 176, 208, 240}

\* The instruction the step executed is a jump or branch at the address
\* PC is left at.
SelfJump ==
  \E i \in OpFetches(trace') :
     /\ trace'[i][3] \in JumpOpcodes
     /\ pc' = trace'[i][2]

C10_SelfJumpAlwaysFatal ==
  [][StepRan =>
       /\ fatal' \in {"none", "loop"} => (fatal' = "loop" <=> pc' = pc)
       /\ SelfJump => fatal' = "loop"
    ]_vars

(***************************************************************************)
(* C10, amended.  step raises the infinite-loop fatal exactly when the PC  *)
(* after the instruction equals the PC saved at the start of the step.  A  *)
(* taken branch-to-self or JMP-to-self is reported by the step that        *)
(* executes it when that step did not first service a pending IRQ; when    *)
(* it did, the saved PC is the interrupted one, and a self-jump at the     *)
(* handler's first instruction is not reported by that step unless the     *)
(* handler starts at the interrupted PC.                                   *)
(***************************************************************************)
C10_LoopFatalIffPcUnchanged ==
  [][StepRan =>
       /\ fatal' \in {"none", "loop"} => (fatal' = "loop" <=> pc' = pc)
       /\ (SelfJump /\ ~(irq_pending /\ Bit(p, 2) = 0)) => fatal' = "loop"
       /\ (SelfJump /\ irq_pending /\ Bit(p, 2) = 0 /\ pc' # pc) => fatal' = "none"
    ]_vars

\* A step executed a JMP or BNE to itself and raised the fatal.
C10_Witness ==
  /\ call \in {"step", "tick"} /\ fatal = "loop"
  /\ opcode \in {76, 208} /\ ints = <<>>
  /\ \E i \in DOMAIN trace : trace[i][4] = "op" /\ trace[i][2] = pc

(***************************************************************************)
(* Decoding on its own.  Instruction::fetch, and one Cpu::step, applied to *)
(* a CPU just built whose PC is anywhere and whose memory holds any opcode *)
(* byte.                                                                   *)
(***************************************************************************)
AnyByte == 0..255

\* Program counters a decode starts at: the ends of the address space and
\* of a page, where advancing wraps.
FetchPcs == {0, 255, 32768, 65534, 65535}

FreshFetch ==
  [op : AnyByte, lo : {1, 254}, hi : {0, 255}, data : DataBytes,
   veclo : VectorLowBytes, vechi : VectorHighBytes]

\* Nothing has been called yet.
NoCallYet ==
  /\ fatal = "none" /\ diag = <<>> /\ io = <<>> /\ call = "new"
  /\ trace = <<>> /\ ints = <<>> /\ opcode = -1 /\ calls = 0

InitFetch ==
  /\ a = 0 /\ x = 0 /\ y = 0 /\ s = 253 /\ p = FlagsDefault
  /\ pc \in FetchPcs
  /\ irq_pending = FALSE /\ cycles_remaining = 0 /\ cycle = 0
  /\ memory = [addr \in {} |-> 0]
  /\ NoCallYet /\ nes = <<>>

FetchOp ==
  /\ calls = 0
  /\ \E f \in FreshFetch : Commit(Fetch(Machine(f)), "fetch")

StepOp ==
  /\ calls = 0
  /\ \E f \in FreshFetch : Commit(step(Machine(f)), "step")

NextFetch == FetchOp \/ StepOp

SpecFetch == InitFetch /\ [][NextFetch]_vars

\* The bytes whose decode panics, and the STP bytes.
IllegalBytes == {11, 43, 75, 107, 139, 147, 155, 156, 158, 159, 171, 187, 203}

StpBytes == {2, 18, 34, 50, 66, 82, 98, 114, 146, 178, 210, 242}

(***************************************************************************)
(* C11.  For every opcode byte and every PC, Instruction::fetch either     *)
(* returns with PC advanced (mod 2^16) by 1 plus the operand length of the *)
(* byte's addressing mode, having loaded exactly those bytes, or panics    *)
(* with the illegal-opcode message carrying the opcode and its address;    *)
(* the bytes that panic at decode are exactly the thirteen of IllegalBytes;*)
(* the STP bytes decode and halt only when step executes them.             *)
(***************************************************************************)
C11_FetchTotal ==
  [][/\ call' = "fetch" =>
          LET b == opcode'
              len == OperandLength(OPCODE_MODE[b + 1])
          IN /\ trace'[1] = <<"load", pc, b, "op">>
             /\ fatal' \in {"none", "illegal"}
             /\ fatal' = "illegal" <=> b \in IllegalBytes
             /\ fatal' = "illegal" => diag' = <<b, pc>>
             /\ fatal' = "none" =>
                  /\ diag' = <<>>
                  /\ len \in 0..2
                  /\ pc' = (pc + 1 + len) % 65536
                  /\ Len(trace') = 1 + len
                  /\ \A i \in 1..len :
                       /\ trace'[1 + i][1] = "load"
                       /\ trace'[1 + i][2] = (pc + i) % 65536
     /\ call' = "step" =>
          /\ fatal' = "illegal" <=> opcode' \in IllegalBytes
          /\ fatal' = "stp" <=> opcode' \in StpBytes
          /\ fatal' = "stp" => diag' = <<>> /\ pc' = (pc + 1) % 65536
    ]_vars

\* Decoding SYA ($9C) at $FFFF panicked with that opcode and address.
C11_Witness ==
  /\ call = "fetch" /\ fatal = "illegal"
  /\ opcode = 156 /\ diag = <<156, 65535>>

(***************************************************************************)
(* Addressing modes on their own.  A mode value is stored through and then *)
(* loaded through, or JMP takes its target through it, on a CPU whose      *)
(* index registers and whose zero page hold any of a few bytes.            *)
(***************************************************************************)
\* Values of X and Y, and of the zero-page cells a pointer can sit in.
IndexBytes == {0, 1, 255}

PointerCells == {0, 1, 255}

PointerBytes == {0, 1, 255}

\* The cells of the worked example of JMP ($30FF).
JmpExampleCells == (12543 :> 64) @@ (12288 :> 128) @@ (12544 :> 80)

\* The addressing modes whose store does not panic, and the operands
\* they are tried with.
StoreModes ==
  {"Accumulator", "ZeroPage", "ZeroPageX", "ZeroPageY", "Absolute",
   "AbsoluteX", "AbsoluteY", "IndexedIndirect", "IndirectIndexed"}

OperandsOf(mode) ==
  CASE mode = "Accumulator" -> {0}
    [] mode \in {"Absolute", "AbsoluteX", "AbsoluteY"} -> {0, 255, 4660, 65535}
    [] mode = "Indirect" -> {255, 4660, 12288, 12543, 65535}
    [] OTHER -> {0, 1, 255}

StoredBytes == {1, 90}

FreshOperand ==
  [op : {0}, lo : {0}, hi : {0}, data : {0, 7},
   veclo : VectorLowBytes, vechi : VectorHighBytes]

InitAddressing ==
  /\ a = 0 /\ s = 253 /\ p = FlagsDefault /\ pc = 0
  /\ x \in IndexBytes /\ y \in IndexBytes
  /\ irq_pending = FALSE /\ cycles_remaining = 0 /\ cycle = 0
  /\ \E zp \in [PointerCells -> PointerBytes] : memory = zp @@ JmpExampleCells
  /\ NoCallYet /\ nes = <<>>

\* am.store(memory, registers, v) and then am.load(memory, registers) on
\* the same mode value.
StoreThenLoad(c, ins, v) ==
  LET Return(c2) == [c2 EXCEPT !.io = [args |-> <<ins.mode, ins.arg, v>>, ret |-> c2.val]]
      Load(c1) == Return(AmLoad(c1, ins))
  IN Load(AmStore(c, ins, v))

StoreLoad ==
  /\ calls = 0
  /\ \E f \in FreshOperand, mode \in StoreModes, v \in StoredBytes :
       \E arg \in OperandsOf(mode) :
         Commit(StoreThenLoad(Machine(f), [op |-> "None", mode |-> mode, arg |-> arg], v),
                "store_load")

\* JMP (a) executed on its own.
JmpIndirect ==
  /\ calls = 0
  /\ \E f \in FreshOperand, arg \in OperandsOf("Indirect") :
       Commit([jmp(Machine(f), [op |-> "Jmp", mode |-> "Indirect", arg |-> arg])
                 EXCEPT !.io = [args |-> <<arg>>, ret |-> 0]],
              "jmp_indirect")

NextAddressing == StoreLoad \/ JmpIndirect

SpecAddressing == InitAddressing /\ [][NextAddressing]_vars

(***************************************************************************)
(* C12.  For every addressing mode that supports store, every register     *)
(* state and every state of the flat bus, store(v) followed by load with   *)
(* the same mode value returns v.  The indirect modes read their pointer   *)
(* from the zero page again for the load, so a store that lands on one of  *)
(* the pointer bytes sends the load elsewhere.                             *)
(***************************************************************************)
C12_StoreThenLoadReturns ==
  [][call' = "store_load" => io'.ret = io'.args[3]]_vars

\* The store of a store-then-load went to a cell the mode had just read
\* its pointer from.
StoreHitPointer ==
  /\ io'.args[1] \in {"IndexedIndirect", "IndirectIndexed"}
  /\ trace'[3][2] \in {trace'[1][2], trace'[2][2]}

(***************************************************************************)
(* C12, amended.  store(v) followed by load with the same mode value and   *)
(* the same registers returns v for Accumulator, ZeroPage, ZeroPageX,      *)
(* ZeroPageY, Absolute, AbsoluteX and AbsoluteY always, and for            *)
(* IndexedIndirect and IndirectIndexed whenever the effective address is   *)
(* not one of the two zero-page bytes the mode reads its pointer from; in  *)
(* every case the load returns the byte at the address the mode resolves   *)
(* to after the store.                                                     *)
(***************************************************************************)
C12_StoreThenLoadUnlessPointerHit ==
  [][call' = "store_load" =>
       /\ fatal' = "none"
       /\ ~StoreHitPointer => io'.ret = io'.args[3]
       /\ io'.args[1] = "Accumulator" => trace' = <<>> /\ a' = io'.args[3]
       /\ io'.args[1] # "Accumulator" =>
            /\ trace'[Len(trace')][1] = "load"
            /\ io'.ret = memory'[trace'[Len(trace')][2]]
    ]_vars

\* An IndirectIndexed store went through a pointer held in two different
\* cells, away from them, and the load returned the byte.
C12_Witness ==
  /\ call = "store_load" /\ io.args[1] = "IndirectIndexed"
  /\ Len(trace) = 6
  /\ trace[3][2] \notin {trace[1][2], trace[2][2]}
  /\ trace[3][2] > 255
  /\ io.ret = io.args[3]

(***************************************************************************)
(* C15.  JMP (a) takes the low byte of the new PC from address a and the   *)
(* high byte from (a & $FF00) | ((a + 1) & $00FF): from a + 1 when the low *)
(* byte of a is not $FF, from a & $FF00 when it is.  With $30FF = $40,     *)
(* $3000 = $80 and $3100 = $50, JMP ($30FF) sets PC = $8040.               *)
(***************************************************************************)
C15_JmpIndirectWrapsInPage ==
  [][call' = "jmp_indirect" =>
       LET arg == io'.args[1]
           high == (arg \div 256) * 256 + ((arg + 1) % 256)
       IN /\ fatal' = "none"
          /\ Len(trace') = 2
          /\ trace'[1][1] = "load" /\ trace'[1][2] = arg
          /\ trace'[2][1] = "load" /\ trace'[2][2] = high
          /\ pc' = trace'[1][3] + 256 * trace'[2][3]
          /\ arg % 256 # 255 => high = arg + 1
          /\ arg % 256 = 255 => high = arg - 255
          /\ arg = 12543 => pc' = 32832
          /\ a' = a /\ x' = x /\ y' = y /\ s' = s /\ p' = p
    ]_vars

\* JMP ($30FF) was executed and left PC = $8040.
C15_Witness ==
  /\ call = "jmp_indirect" /\ io.args = <<12543>>
  /\ pc = 32832
  /\ trace = << <<"load", 12543, 64, "data">>, <<"load", 12288, 128, "data">> >>

(***************************************************************************)
(* The adder on its own.  ADC and SBC with an immediate operand, for every *)
(* accumulator, every operand and either carry.                            *)
(***************************************************************************)
\* Status registers the adder is entered with: every flag it writes clear
\* or set beforehand, carry clear or set.
AdderFlags == {48, 49, 238, 239}

InitAdder ==
  /\ a \in AnyByte /\ p \in AdderFlags
  /\ x = 0 /\ y = 0 /\ s = 253 /\ pc = 0
  /\ irq_pending = FALSE /\ cycles_remaining = 0 /\ cycle = 0
  /\ memory = [addr \in {} |-> 0]
  /\ NoCallYet /\ nes = <<>>

Adc ==
  /\ calls = 0
  /\ \E f \in FreshVector, m \in AnyByte :
       Commit([adc(Machine(f), [op |-> "Adc", mode |-> "Immediate", arg |-> m])
                 EXCEPT !.io = [args |-> <<m>>, ret |-> 0]],
              "adc")

Sbc ==
  /\ calls = 0
  /\ \E f \in FreshVector, m \in AnyByte :
       Commit([sbc(Machine(f), [op |-> "Sbc", mode |-> "Immediate", arg |-> m])
                 EXCEPT !.io = [args |-> <<m>>, ret |-> 0]],
              "sbc")

NextAdder == Adc \/ Sbc

SpecAdder == InitAdder /\ [][NextAdder]_vars

\* A byte read as a two's complement number.
Signed(v) == IF v > 127 THEN v - 256 ELSE v

\* The flags the adder does not write are kept, and so is everything else.
AdderKeepsTheRest ==
  /\ \A i \in {2, 3, 4, 5} : Bit(p', i) = Bit(p, i)
  /\ x' = x /\ y' = y /\ s' = s /\ pc' = pc /\ memory' = memory
  /\ trace' = <<>> /\ fatal' = "none"

(***************************************************************************)
(* C13.  For all A, M in 0..255 and carry-in C, ADC leaves                 *)
(* 256*CARRY + A' = A + M + C, OVERFLOW = 1 exactly when the signed sum of *)
(* A, M and C lies outside [-128, 127], ZERO = 1 exactly when A' = 0, and  *)
(* NEGATIVE = bit 7 of A'.                                                 *)
(***************************************************************************)
C13_AdcSum ==
  [][call' = "adc" =>
       LET m == io'.args[1]
           c == Bit(p, 0)
           sum == Signed(a) + Signed(m) + c
       IN /\ 256 * Bit(p', 0) + a' = a + m + c
          /\ Bit(p', 6) = 1 <=> (sum < -128 \/ sum > 127)
          /\ Bit(p', 1) = 1 <=> a' = 0
          /\ Bit(p', 7) = Bit(a', 7)
          /\ AdderKeepsTheRest
    ]_vars

\* $7F + $00 with carry in: no carry out, signed overflow, negative result.
C13_Witness ==
  /\ call = "adc" /\ io.args = <<0>> /\ a = 128
  /\ Bit(p, 0) = 0 /\ Bit(p, 6) = 1 /\ Bit(p, 7) = 1 /\ Bit(p, 1) = 0

(***************************************************************************)
(* C14.  For all A, M in 0..255 and carry-in C, SBC leaves                 *)
(* A' = (A - M - (1 - C)) mod 256, CARRY = 1 exactly when                  *)
(* A >= M + (1 - C), and OVERFLOW, ZERO and NEGATIVE as ADC produces them  *)
(* for the operand M XOR $FF with the same A and C.                        *)
(***************************************************************************)
C14_SbcDifference ==
  [][call' = "sbc" =>
       LET m == io'.args[1]
           c == Bit(p, 0)
           viaAdc == adc(Machine(CHOOSE f \in FreshVector : TRUE),
                         [op |-> "Adc", mode |-> "Immediate", arg |-> BitXor(m, 255)])
       IN /\ a' = (a - m - (1 - c)) % 256
          /\ Bit(p', 0) = 1 <=> a >= m + (1 - c)
          /\ \A i \in {1, 6, 7} : Bit(p', i) = Bit(viaAdc.p, i)
          /\ a' = viaAdc.a
          /\ AdderKeepsTheRest
    ]_vars

\* $00 - $01 with carry set: borrow, result $FF, no signed overflow.
C14_Witness ==
  /\ call = "sbc" /\ io.args = <<1>> /\ a = 255
  /\ Bit(p, 0) = 0 /\ Bit(p, 6) = 0 /\ Bit(p, 7) = 1 /\ Bit(p, 1) = 0
  /\ Bit(p, 3) = 1

(***************************************************************************)
(* The stack on its own.  Two pushes and two pulls from every stack        *)
(* pointer, and programs of PHP, PLP, JSR and RTS.                         *)
(***************************************************************************)
MaxStackCalls == 2

\* Bytes pushed by the two pushes.
PushedBytes == {17, 34}

\* Status registers as pull_flags leaves them: UNUSED set, BREAK clear.
StackFlags == {32, 36, 239}

\* Where the program counter starts: $0600 and, for the wrap of PC, $FFFE.
StackPcs == {1536, 65534}

\* PHP, PLP, JSR and RTS with targets $0609 and, inside the stack page, $0109.
FreshStack ==
  [op : {8, 40, 32, 96}, lo : {9}, hi : {6, 1}, data : {203},
   veclo : VectorLowBytes, vechi : VectorHighBytes]

InitStack ==
  /\ s \in AnyByte /\ p \in StackFlags /\ pc \in StackPcs
  /\ a = 0 /\ x = 0 /\ y = 0
  /\ irq_pending = FALSE /\ cycles_remaining = 0 /\ cycle = 0
  /\ memory = [addr \in {} |-> 0]
  /\ NoCallYet /\ nes = <<>>

\* push_stack(v1); push_stack(v2); pull_stack(); pull_stack()
PushPushPullPull(c, v1, v2) ==
  LET Out(first, c4) == [c4 EXCEPT !.io = [args |-> <<v1, v2>>, ret |-> <<first, c4.val>>]]
      Second(c3) == Out(c3.val, pull_stack(c3))
  IN Second(pull_stack(push_stack(push_stack(c, v1), v2)))

Lifo ==
  /\ calls = 0
  /\ \E f \in FreshStack, v1 \in PushedBytes, v2 \in PushedBytes :
       Commit(PushPushPullPull(Machine(f), v1, v2), "lifo")

StackStep ==
  /\ fatal = "none" /\ calls < MaxStackCalls /\ call # "lifo"
  /\ \E f \in FreshStack : Commit(step(Machine(f)), "step")

NextStack == Lifo \/ StackStep

SpecStack == InitStack /\ [][NextStack]_vars

(***************************************************************************)
(* C16.  For every starting S, push(v1); push(v2); pull(); pull() returns  *)
(* v2 then v1 and restores S; push writes at $0100+S and then decrements S *)
(* mod 256, pull increments S mod 256 and then reads at $0100+S, so every  *)
(* stack access is to an address in $0100-$01FF.                           *)
(***************************************************************************)
C16_StackLifo ==
  [][call' = "lifo" =>
       LET v1 == io'.args[1]
           v2 == io'.args[2]
           below == (s + 255) % 256
       IN /\ io'.ret = <<v2, v1>>
          /\ s' = s
          /\ Len(trace') = 4
          /\ trace'[1][1] = "store" /\ trace'[1][2] = 256 + s /\ trace'[1][3] = v1
          /\ trace'[2][1] = "store" /\ trace'[2][2] = 256 + below /\ trace'[2][3] = v2
          /\ trace'[3][1] = "load" /\ trace'[3][2] = 256 + below
          /\ trace'[4][1] = "load" /\ trace'[4][2] = 256 + s
          /\ \A i \in 1..4 : trace'[i][2] \in 256..511
          /\ a' = a /\ x' = x /\ y' = y /\ p' = p /\ pc' = pc /\ fatal' = "none"
    ]_vars

\* From S = $00 the second push went to $01FF and the pulls gave v2, v1.
C16_Witness ==
  /\ call = "lifo" /\ s = 0
  /\ io = [args |-> <<17, 34>>, ret |-> <<34, 17>>]
  /\ trace[1][2] = 256 /\ trace[2][2] = 511

\* The step ran the instruction with this opcode to its end.
Executed(byte) == call' = "step" /\ opcode' = byte /\ fatal' = "none"

(***************************************************************************)
(* C17.  PHP pushes P | UNUSED | BREAK without changing P; PHP immediately *)
(* followed by PLP leaves S unchanged and P with CARRY, ZERO,              *)
(* INTERRUPT_DISABLE, DECIMAL, OVERFLOW and NEGATIVE exactly as before     *)
(* PHP, BREAK = 0 and UNUSED = 1.                                          *)
(***************************************************************************)
C17_PhpPlp ==
  [][/\ Executed(8) =>
          /\ p' = p /\ s' = (s + 255) % 256
          /\ trace'[Len(trace')] = <<"store", 256 + s, BitOr(p, 48), "data">>
     /\ (Executed(40) /\ call = "step" /\ opcode = 8) =>
          /\ s' = trace[Len(trace)][2] - 256
          /\ \A i \in {0, 1, 2, 3, 6, 7} : Bit(p', i) = Bit(p, i)
          /\ Bit(p', 4) = 0 /\ Bit(p', 5) = 1
          /\ trace'[Len(trace')] = <<"load", 256 + s', BitOr(p, 48), "data">>
    ]_vars

\* PHP at S = $00 with P = $EF, then PLP: S is $00 again and P is $EF.
C17_Witness ==
  /\ call = "step" /\ opcode = 40 /\ calls = 2
  /\ s = 0 /\ p = 239
  /\ trace[Len(trace)] = <<"load", 256, 255, "data">>

(***************************************************************************)
(* C18.  A JSR located at address p with target t pushes the high byte     *)
(* then the low byte of p+2, sets PC = t and lowers S by 2 (mod 256); an   *)
(* RTS executed with the stack as that JSR left it sets PC = p+3 and       *)
(* restores S to its value before the JSR.                                 *)
(***************************************************************************)
C18_JsrRts ==
  [][/\ Executed(32) =>
          LET t == trace'[2][3] + 256 * trace'[3][3]
              ret == (pc + 2) % 65536
          IN /\ Len(trace') = 5
             /\ trace'[1] = <<"load", pc, 32, "op">>
             /\ trace'[4] = <<"store", 256 + s, ret \div 256, "data">>
             /\ trace'[5] = <<"store", 256 + ((s + 255) % 256), ret % 256, "data">>
             /\ pc' = t
             /\ s' = (s + 254) % 256
     /\ (Executed(96) /\ call = "step" /\ opcode = 32) =>
          /\ pc' = (trace[1][2] + 3) % 65536
          /\ s' = trace[4][2] - 256
    ]_vars

\* JSR $0609 at $0600 pushed $06, $02; the RTS at $0609 returned to $0603.
C18_Witness ==
  /\ call = "step" /\ opcode = 96 /\ calls = 2
  /\ pc = 1539 /\ s = 253
  /\ memory[509] = 6 /\ memory[508] = 2
  /\ trace[1] = <<"load", 1545, 96, "op">>

(***************************************************************************)
(* The console's bus (mem/mod.rs): Memory routes each CPU address to Ram,  *)
(* to the Ppu's register port (ppu.rs), to the I/O registers or to the     *)
(* cartridge (NROM, mapper/mapper0.rs).  The operations run on a record w  *)
(* of the devices and of what one call did:                                *)
(*   ram, oam, vram, palette   arrays, zero until written                  *)
(*   regs   the Ppu's Registers; scroll and addr hold the bytes written so *)
(*          far: <<>> is [None, None], <<b>> is [Some(b), None]            *)
(*   rom    the cartridge: length of PRG, and whether the build checks     *)
(*          integer overflow                                               *)
(*   trace  the device accesses <<kind, device, index, value>> of the       *)
(*          CPU's call (the loads an OAM DMA makes in turn are left out)   *)
(*   val    the byte the last load returned; buf the output of load_range  *)
(***************************************************************************)
RAM_ADDR_BITS == 11
PPU_REG_START == 8192
IO_REG_START == 16384
CART_SPACE_START == 16416
OAMDMA == 16404
VRAM_SIZE == 2048
PALETTE_BASE_ADDR == 16128
PALETTE_ADDR_BITS == 5
PPU_REG_ADDR_BITS == 3
PRG_BASE_ADDR == 32768
NROM_128_SIZE == 16384
NROM_256_SIZE == 32768

\* [0; N]: the arrays start zeroed; only the cells that are not zero are kept.
Cell(arr, i) == IF i \in DOMAIN arr THEN arr[i] ELSE 0

Put(arr, i, v) ==
  [j \in (DOMAIN arr \ {i}) \cup (IF v = 0 THEN {} ELSE {i}) |->
     IF j = i THEN v ELSE arr[j]]

alias(addr, n_bits) == addr % (2 ^ n_bits)

\* The cartridge's image: the byte at each index of PRG and of CHR.
PrgRom(i) == (i + (i \div 256)) % 256

ChrRom(i) == (255 - i) % 256

\* impl Bus for Ram
RamLoad(w, addr) ==
  LET i == alias(addr, RAM_ADDR_BITS)
  IN [w EXCEPT !.val = Cell(w.ram, i),
               !.trace = Append(@, <<"load", "ram", i, Cell(w.ram, i)>>)]

RamStore(w, addr, value) ==
  LET i == alias(addr, RAM_ADDR_BITS)
  IN [w EXCEPT !.ram = Put(@, i, value),
               !.trace = Append(@, <<"store", "ram", i, value>>)]

\* impl PpuBus for PpuMapper0
ppu_load(w, addr) ==
  IF addr < 8192
    THEN [w EXCEPT !.val = ChrRom(addr)]
    ELSE IF addr >= 16128
      THEN [w EXCEPT !.val = Cell(w.palette, alias(addr, 5))]
      ELSE IF addr - 8192 < VRAM_SIZE
        THEN [w EXCEPT !.val = Cell(w.vram, addr - 8192)]
        ELSE Panic(w, "index")

ppu_store(w, addr, value) ==
  IF addr >= 8192
    THEN IF addr - 8192 < VRAM_SIZE
           THEN [w EXCEPT !.vram = Put(@, addr - 8192, value)]
           ELSE Panic(w, "index")
    ELSE IF addr >= 16128
      THEN [w EXCEPT !.palette = Put(@, alias(addr, 5), value)]
      ELSE w

\* double_write as it would be if a full latch kept taking bytes.
double_write_overwritesSecond(reg, value) ==
  IF Len(reg) < 2 THEN Append(reg, value) ELSE <<reg[1], value>>

double_write(reg, value) == IF Len(reg) < 2 THEN Append(reg, value) ELSE reg

read_ppuaddr(reg) ==
  AddrFromBytes(IF Len(reg) > 1 THEN reg[2] ELSE 0, IF Len(reg) > 0 THEN reg[1] ELSE 0)

\* Ppu::load as it would be if the write-only registers read as zero.
PpuLoad_writeOnlyReadsZero(w, addr) ==
  LET reg == alias(addr, PPU_REG_ADDR_BITS)
      Latch(w1) ==
        IF Ok(w1)
          THEN [w1 EXCEPT !.regs.most_recent_value = w1.val,
                          !.trace = Append(@, <<"load", "ppu", reg, w1.val>>)]
          ELSE w1
      Data(ppuaddr) ==
        IF ppuaddr < PALETTE_BASE_ADDR
          THEN ppu_load(w, ppuaddr)
          ELSE [w EXCEPT !.val = Cell(w.palette, alias(ppuaddr, PALETTE_ADDR_BITS))]
  IN Latch(CASE reg = 2 ->
                  [w EXCEPT !.regs.scroll = <<>>, !.regs.addr = <<>>,
                            !.val = BitOr(w.regs.status, BitAnd(224, w.regs.most_recent_value)),
                            !.regs.status = BitAnd(@, 127)]
             [] reg = 4 -> [w EXCEPT !.val = Cell(w.oam, w.regs.oam_addr)]
             [] reg = 7 -> Data(read_ppuaddr(w.regs.addr))
             [] OTHER -> [w EXCEPT !.val = 0])

\* impl Bus for Ppu: load
PpuLoad(w, addr) ==
  LET reg == alias(addr, PPU_REG_ADDR_BITS)
      Latch(w1) ==
        IF Ok(w1)
          THEN [w1 EXCEPT !.regs.most_recent_value = w1.val,
                          !.trace = Append(@, <<"load", "ppu", reg, w1.val>>)]
          ELSE w1
      Data(ppuaddr) ==
        IF ppuaddr < PALETTE_BASE_ADDR
          THEN ppu_load(w, ppuaddr)
          ELSE [w EXCEPT !.val = Cell(w.palette, alias(ppuaddr, PALETTE_ADDR_BITS))]
  IN Latch(CASE reg = 2 ->
                  [w EXCEPT !.regs.scroll = <<>>, !.regs.addr = <<>>,
                            !.val = BitOr(w.regs.status, BitAnd(224, w.regs.most_recent_value)),
                            !.regs.status = BitAnd(@, 127)]
             [] reg = 4 -> [w EXCEPT !.val = Cell(w.oam, w.regs.oam_addr)]
             [] reg = 7 -> Data(read_ppuaddr(w.regs.addr))
             [] OTHER -> [w EXCEPT !.val = w.regs.most_recent_value])

\* impl Bus for Ppu: store
PpuStore(w, addr, value) ==
  LET reg == alias(addr, PPU_REG_ADDR_BITS)
      Data(w1, ppuaddr) ==
        IF ppuaddr < PALETTE_BASE_ADDR
          THEN ppu_store(w1, ppuaddr, value)
          ELSE [w1 EXCEPT !.palette = Put(@, alias(ppuaddr, PALETTE_ADDR_BITS), value)]
      Write(w1) ==
        CASE reg = 0 -> [w1 EXCEPT !.regs.ctrl = value]
          [] reg = 1 -> [w1 EXCEPT !.regs.mask = value]
          [] reg = 2 -> w1
          [] reg = 3 -> [w1 EXCEPT !.regs.oam_addr = value]
          [] reg = 4 -> [w1 EXCEPT !.oam = Put(@, w1.regs.oam_addr, value)]
          [] reg = 5 -> [w1 EXCEPT !.regs.scroll = double_write(@, value)]
          [] reg = 6 -> [w1 EXCEPT !.regs.addr = double_write(@, value)]
          [] OTHER -> Data(w1, read_ppuaddr(w1.regs.addr))
  IN Write([w EXCEPT !.regs.most_recent_value = value,
                     !.trace = Append(@, <<"store", "ppu", reg, value>>)])

\* CpuMapper0::load as it would be if the 16 KiB image were not mirrored.
CpuMapper0Load_noMirroring(w, addr) ==
  IF addr < PRG_BASE_ADDR /\ w.rom.overflow_checks
    THEN Panic(w, "overflow")
    ELSE LET i == addr - PRG_BASE_ADDR
         IN [w EXCEPT !.val = PrgRom(i),
                      !.trace = Append(@, <<"load", "cart", addr, PrgRom(i)>>)]

\* impl Bus for CpuMapper0: load.  Below $8000 the subtraction overflows:
\* a panic where the build checks overflow, and otherwise a wrapped
\* difference, which is congruent to the plain one modulo the length of PRG
\* (a power of two).
CpuMapper0Load(w, addr) ==
  IF addr < PRG_BASE_ADDR /\ w.rom.overflow_checks
    THEN Panic(w, "overflow")
    ELSE LET i == (addr - PRG_BASE_ADDR) % w.rom.prg_len
         IN [w EXCEPT !.val = PrgRom(i),
                      !.trace = Append(@, <<"load", "cart", addr, PrgRom(i)>>)]

\* impl Bus for Memory: load (read_io_register returns 0)
MemoryLoad_ramUpToIoRegisters(w, addr) ==
  IF addr < IO_REG_START
    THEN RamLoad(w, addr)
    ELSE IF addr < CART_SPACE_START
      THEN [w EXCEPT !.val = 0, !.trace = Append(@, <<"load", "io", addr, 0>>)]
      ELSE CpuMapper0Load(w, addr)

MemoryLoad(w, addr) ==
  IF addr < PPU_REG_START
    THEN RamLoad(w, addr)
    ELSE IF addr < IO_REG_START
      THEN PpuLoad(w, addr)
      ELSE IF addr < CART_SPACE_START
        THEN [w EXCEPT !.val = 0, !.trace = Append(@, <<"load", "io", addr, 0>>)]
        ELSE CpuMapper0Load(w, addr)

\* Bus::load_range: the loads of output[i .. i + n - 1], in the order of the
\* loop (the range is split in halves to keep the evaluation shallow).
RECURSIVE load_range(_, _, _, _)
load_range(w, start, i, n) ==
  LET Keep(w1) ==
        IF Ok(w1) THEN [w1 EXCEPT !.buf = Append(@, w1.val), !.trace = w.trace] ELSE w1
      Rest(w1) == IF Ok(w1) THEN load_range(w1, start, i + (n \div 2), n - (n \div 2)) ELSE w1
  IN IF n = 1
       THEN Keep(MemoryLoad(w, start + i))
       ELSE Rest(load_range(w, start, i, n \div 2))

\* Memory::write_io_register; OAMDMA ends in Ppu::oam_dma
write_io_register(w, addr, value) ==
  LET oam_dma(w1) ==
        IF Ok(w1)
          THEN [w1 EXCEPT !.oam = [i \in {j \in 0..255 : w1.buf[j + 1] # 0} |-> w1.buf[i + 1]],
                          !.buf = <<>>]
          ELSE w1
      Register(w0) ==
        IF addr = OAMDMA
          THEN oam_dma(load_range(w0, AddrFromBytes(0, value), 0, 256))
          ELSE w0
  IN Register([w EXCEPT !.trace = Append(@, <<"store", "io", addr, value>>)])

\* impl Bus for Memory: store (CpuMapper0::store does nothing)
MemoryStore(w, addr, value) ==
  IF addr < PPU_REG_START
    THEN RamStore(w, addr, value)
    ELSE IF addr < IO_REG_START
      THEN PpuStore(w, addr, value)
      ELSE IF addr < CART_SPACE_START
        THEN write_io_register(w, addr, value)
        ELSE [w EXCEPT !.trace = Append(@, <<"store", "cart", addr, value>>)]

(***************************************************************************)
(* The console's bus on its own: loads and stores through Memory at RAM    *)
(* and its mirrors, at the eight PPU registers and their last mirror, at   *)
(* the I/O registers and in the cartridge space.                           *)
(***************************************************************************)
MaxMemoryCalls == 2

\* RAM and its last mirror, register STATUS, the last mirror of each of the
\* eight PPU registers, two I/O registers, and the cartridge space.
MemoryAddrs ==
  {0, 2047, 8191}
    \cup {8194} \cup {PPU_REG_START + k + 8 * 1023 : k \in 0..7}
    \cup {OAMDMA, 16415}
    \cup {CART_SPACE_START, 32768, 65535}

\* Bytes stored: as data, as halves of PPUADDR ($07xx is CHR, $28xx lies
\* past the 2 KiB of VRAM, $40xx is the palette) and as the page of an OAM
\* DMA ($07 RAM, $28 the PPU registers, $40 I/O registers and cartridge).
MemoryBytes == {7, 40, 64}

\* Ram::new, Ppu::with_mapper and CpuMapper0::new
NesNew(prg_len, overflow_checks) ==
  [ram |-> [i \in {} |-> 0],
   regs |-> [ctrl |-> 0, mask |-> 0, status |-> 0, oam_addr |-> 0,
             scroll |-> <<>>, addr |-> <<>>, most_recent_value |-> 0],
   oam |-> [i \in {} |-> 0], vram |-> [i \in {} |-> 0], palette |-> [i \in {} |-> 0],
   rom |-> [prg_len |-> prg_len, overflow_checks |-> overflow_checks]]

\* The devices a call starts on.
Working(n) ==
  [ram |-> n.ram, regs |-> n.regs, oam |-> n.oam, vram |-> n.vram,
   palette |-> n.palette, rom |-> n.rom,
   trace |-> <<>>, val |-> 0, buf |-> <<>>, fatal |-> "none"]

\* The state a call through Memory leaves.
MemoryCommit(w, name, args) ==
  /\ nes' = [ram |-> w.ram, regs |-> w.regs, oam |-> w.oam, vram |-> w.vram,
             palette |-> w.palette, rom |-> w.rom]
  /\ trace' = w.trace
  /\ fatal' = w.fatal
  /\ io' = [args |-> args, ret |-> w.val]
  /\ call' = name
  /\ calls' = calls + 1
  /\ UNCHANGED <<a, x, y, s, pc, p, irq_pending, cycles_remaining, cycle,
                 memory, diag, ints, opcode>>

InitMemory ==
  /\ a = 0 /\ x = 0 /\ y = 0 /\ s = 253 /\ pc = 0 /\ p = FlagsDefault
  /\ irq_pending = FALSE /\ cycles_remaining = 0 /\ cycle = 0
  /\ memory = [addr \in {} |-> 0]
  /\ NoCallYet
  /\ \E prg_len \in {NROM_128_SIZE}, overflow_checks \in BOOLEAN :
       nes = NesNew(prg_len, overflow_checks)

MemLoad ==
  /\ fatal = "none" /\ calls < MaxMemoryCalls
  /\ \E addr \in MemoryAddrs :
       \E w \in {MemoryLoad(Working(nes), addr)} : MemoryCommit(w, "load", <<addr>>)

MemStore ==
  /\ fatal = "none" /\ calls < MaxMemoryCalls
  /\ \E addr \in MemoryAddrs, value \in MemoryBytes :
       \E w \in {MemoryStore(Working(nes), addr, value)} :
         MemoryCommit(w, "store", <<addr, value>>)

NextMemory == MemLoad \/ MemStore

SpecMemory == InitMemory /\ [][NextMemory]_vars

\* What a call on the state nes computes: the devices, the accesses and the
\* byte returned.
Outcome(w) ==
  [ram |-> w.ram, regs |-> w.regs, oam |-> w.oam, vram |-> w.vram,
   palette |-> w.palette, rom |-> w.rom, trace |-> w.trace, fatal |-> w.fatal,
   val |-> w.val]

Left == [ram |-> nes'.ram, regs |-> nes'.regs, oam |-> nes'.oam, vram |-> nes'.vram,
         palette |-> nes'.palette, rom |-> nes'.rom, trace |-> trace',
         fatal |-> fatal', val |-> io'.ret]

(***************************************************************************)
(* C19.  Memory routes every CPU address to exactly one device:            *)
(* $0000-$1FFF to RAM at index addr & $07FF, $2000-$3FFF to the PPU        *)
(* register addr & 7, $4000-$401F to the I/O register port, $4020-$FFFF to *)
(* the mapper.  Hence a store of v to a RAM address A is read back as v at *)
(* every A' in $0000-$1FFF congruent to A mod $800 and changes no other    *)
(* RAM cell, and an access to $2000+k+8j has the same effect as the access *)
(* to $2000+k.                                                             *)
(***************************************************************************)
C19_MemoryRouting ==
  [][call' \in {"load", "store"} =>
       LET addr == io'.args[1]
           first == trace'[1]
       IN /\ addr < 8192 =>
               /\ trace' = << <<call', "ram", addr % 2048,
                                IF call' = "load" THEN Cell(nes.ram, addr % 2048)
                                                  ELSE io'.args[2]>> >>
               /\ call' = "load" => io'.ret = Cell(nes.ram, addr % 2048) /\ nes' = nes
               /\ call' = "store" =>
                    /\ Cell(nes'.ram, addr % 2048) = io'.args[2]
                    /\ \A i \in (DOMAIN nes.ram \cup DOMAIN nes'.ram) \ {addr % 2048} :
                         Cell(nes'.ram, i) = Cell(nes.ram, i)
                    /\ DOMAIN nes'.ram \subseteq 0..2047
                    /\ nes' = [nes EXCEPT !.ram = nes'.ram]
               /\ (/\ call = "store" /\ call' = "load" /\ io.args[1] < 8192
                   /\ io.args[1] % 2048 = addr % 2048) => io'.ret = io.args[2]
          /\ (addr >= 8192 /\ addr < 16384) =>
               /\ fatal' = "none" => Len(trace') = 1
               /\ trace' # <<>> =>
                    (first[1] = call' /\ first[2] = "ppu" /\ first[3] = addr % 8 /\ Len(trace') = 1)
               /\ call' = "load" =>
                    Left = Outcome(MemoryLoad(Working(nes), 8192 + (addr % 8)))
               /\ call' = "store" =>
                    Left = Outcome(MemoryStore(Working(nes), 8192 + (addr % 8), io'.args[2]))
          /\ (addr >= 16384 /\ addr < 16416) =>
               /\ first = <<call', "io", addr, IF call' = "load" THEN 0 ELSE io'.args[2]>>
               /\ (call' = "load" \/ addr # 16404) => (Len(trace') = 1 /\ nes' = nes)
          /\ addr >= 16416 =>
               /\ nes' = nes
               /\ fatal' = "none" =>
                    (Len(trace') = 1 /\ first[1] = call' /\ first[2] = "cart" /\ first[3] = addr)
               /\ fatal' # "none" => trace' = <<>>
    ]_vars

\* $40 was stored at $07FF and read back at $1FFF.
C19_Witness ==
  /\ call = "load" /\ calls = 2 /\ io = [args |-> <<8191>>, ret |-> 64]
  /\ trace = << <<"load", "ram", 2047, 64>> >>
  /\ nes.ram = (2047 :> 64)

(***************************************************************************)
(* C20.  A CPU load of PPU register 2 (STATUS, any mirror) returns         *)
(* (status & $E0) | (last_bus & $1F), where last_bus is the byte most      *)
(* recently moved over the PPU register port, then empties both the scroll *)
(* and the addr latch and clears bit 7 of status; a CPU store to register  *)
(* 2 changes nothing but the last-bus latch.                               *)
(***************************************************************************)
C20_StatusLoad ==
  [][(/\ call' \in {"load", "store"} /\ fatal' = "none"
      /\ io'.args[1] >= 8192 /\ io'.args[1] < 16384 /\ io'.args[1] % 8 = 2) =>
       /\ call' = "load" =>
            /\ io'.ret = BitOr(BitAnd(nes.regs.status, 224),
                               BitAnd(nes.regs.most_recent_value, 31))
            /\ nes'.regs.scroll = <<>> /\ nes'.regs.addr = <<>>
            /\ nes'.regs.status = BitAnd(nes.regs.status, 127)
       /\ call' = "store" =>
            nes' = [nes EXCEPT !.regs.most_recent_value = io'.args[2]]
    ]_vars

(***************************************************************************)
(* C27.  A tick called with cycles_remaining > 0 decrements                *)
(* cycles_remaining by 1, increments cycle by 1 and changes nothing else:  *)
(* no register, not irq_pending, and it performs no bus load or store,     *)
(* even when an IRQ is pending and INTERRUPT_DISABLE is clear.             *)
(***************************************************************************)
C27_WaitingTickIsPureDelay ==
  [][(call' = "tick" /\ cycles_remaining > 0) =>
       /\ cycles_remaining' = cycles_remaining - 1
       /\ cycle' = cycle + 1
       /\ a' = a /\ x' = x /\ y' = y /\ s' = s /\ pc' = pc /\ p' = p
       /\ irq_pending' = irq_pending
       /\ memory' = memory /\ trace' = <<>> /\ ints' = <<>>
       /\ fatal' = "none"
    ]_vars

\* A tick that only waited, with an IRQ latched and INTERRUPT_DISABLE clear.
C27_Witness ==
  /\ call = "tick" /\ trace = <<>> /\ fatal = "none"
  /\ irq_pending /\ Bit(p, 2) = 0

\* The byte the last call moved over the data bus; 0 before any call.
LastBus ==
  IF call = "new" THEN 0
  ELSE IF call = "store" /\ io.args[1] # OAMDMA THEN io.args[2] ELSE io.ret

(***************************************************************************)
(* C22.  A store of value v to $4014 replaces all 256 bytes of PPU OAM     *)
(* within that single store, so that afterwards oam[i] equals the byte the *)
(* composed bus returns for address v*256 + i for every i in 0..255,       *)
(* regardless of the current oam_addr; no other CPU register or RAM cell   *)
(* changes.  (Loads of the PPU registers change what later loads return,   *)
(* so the bytes are compared for the other pages.)                         *)
(***************************************************************************)
C22_OamDmaCopiesPage ==
  [][(call' = "store" /\ io'.args[1] = OAMDMA) =>
       LET v == io'.args[2]
       IN /\ fatal' = "none"
          /\ (v < 32 \/ v >= 64) =>
               \A i \in 0..255 :
                 Cell(nes'.oam, i) = MemoryLoad(Working(nes), v * 256 + i).val
          /\ nes'.ram = nes.ram /\ nes'.regs.oam_addr = nes.regs.oam_addr
          /\ a' = a /\ x' = x /\ y' = y /\ s' = s /\ pc' = pc /\ p' = p
    ]_vars

(***************************************************************************)
(* C24.  A CPU load from any address in the disabled region $4018-$401F    *)
(* returns the value most recently moved over the data bus (0 only if no   *)
(* transfer has happened yet), and changes no device state.                *)
(***************************************************************************)
C24_DisabledReadsLastBus ==
  [][(call' = "load" /\ io'.args[1] >= 16408 /\ io'.args[1] <= 16415) =>
       /\ fatal' = "none"
       /\ io'.ret = LastBus
       /\ nes' = nes
    ]_vars

(***************************************************************************)
(* C28.  A CPU load at any address through the composed Memory with an     *)
(* NROM cartridge (including $4020-$7FFF, and $2007 with any address       *)
(* latched through $2006) completes with a byte and never aborts: no index *)
(* is out of range and no address subtraction underflows.                  *)
(***************************************************************************)
C28_LoadsNeverAbort ==
  [][call' = "load" => fatal' = "none"]_vars

(***************************************************************************)
(* The two write latches of the PPU, through Memory: stores to SCROLL and  *)
(* ADDR, loads of STATUS, and the accesses that use the latches or sit     *)
(* next to them (a store to CTRL, a load of DATA).                         *)
(***************************************************************************)
MaxLatchCalls == 5

PPUSCROLL == PPU_REG_START + 5
PPUADDR == PPU_REG_START + 6

LatchBytes == {17, 34}

InitLatch ==
  /\ a = 0 /\ x = 0 /\ y = 0 /\ s = 253 /\ pc = 0 /\ p = FlagsDefault
  /\ irq_pending = FALSE /\ cycles_remaining = 0 /\ cycle = 0
  /\ memory = [addr \in {} |-> 0]
  /\ NoCallYet
  /\ nes = NesNew(NROM_128_SIZE, FALSE)

LatchWrite ==
  /\ fatal = "none" /\ calls < MaxLatchCalls
  /\ \E addr \in {PPUSCROLL, PPUADDR, PPUADDR + 8}, value \in LatchBytes :
       \E w \in {MemoryStore(Working(nes), addr, value)} :
         MemoryCommit(w, "store", <<addr, value>>)

LatchStatusRead ==
  /\ fatal = "none" /\ calls < MaxLatchCalls
  /\ \E addr \in {PPU_REG_START + 2} :
       \E w \in {MemoryLoad(Working(nes), addr)} : MemoryCommit(w, "load", <<addr>>)

LatchOtherLoad ==
  /\ fatal = "none" /\ calls < MaxLatchCalls
  /\ \E addr \in {PPU_REG_START + 7, PPUSCROLL, 0} :
       \E w \in {MemoryLoad(Working(nes), addr)} : MemoryCommit(w, "load", <<addr>>)

LatchOtherStore ==
  /\ fatal = "none" /\ calls < MaxLatchCalls
  /\ \E addr \in {PPU_REG_START, PPU_REG_START + 2}, value \in {34} :
       \E w \in {MemoryStore(Working(nes), addr, value)} :
         MemoryCommit(w, "store", <<addr, value>>)

NextLatch == LatchWrite \/ LatchStatusRead \/ LatchOtherLoad \/ LatchOtherStore

SpecLatch == InitLatch /\ [][NextLatch]_vars

\* What a write of value does to a latch holding reg.
Written(reg, value) ==
  CASE Len(reg) = 0 -> <<value>>
    [] Len(reg) = 1 -> <<reg[1], value>>
    [] OTHER -> reg

(***************************************************************************)
(* C21.  For each of $2005 (scroll) and $2006 (addr) independently, over   *)
(* any sequence of CPU accesses: starting from an empty latch the first    *)
(* write stores the first byte, the second write stores the second byte,   *)
(* and every further write leaves the latch unchanged until a STATUS read  *)
(* empties it; a write to $2005 never changes the addr latch and a write   *)
(* to $2006 never changes the scroll latch.                                *)
(***************************************************************************)
C21_TwoStepLatches ==
  [][call' \in {"load", "store"} =>
       LET addr == io'.args[1]
           reg == IF addr >= PPU_REG_START /\ addr < IO_REG_START THEN addr % 8 ELSE 8
       IN /\ nes'.regs.scroll =
               (IF call' = "store" /\ reg = 5 THEN Written(nes.regs.scroll, io'.args[2])
                ELSE IF call' = "load" /\ reg = 2 THEN <<>>
                ELSE nes.regs.scroll)
          /\ nes'.regs.addr =
               (IF call' = "store" /\ reg = 6 THEN Written(nes.regs.addr, io'.args[2])
                ELSE IF call' = "load" /\ reg = 2 THEN <<>>
                ELSE nes.regs.addr)
    ]_vars

\* A third write to SCROLL was ignored while ADDR holds one byte.
C21_Witness ==
  /\ call = "store" /\ io.args = <<PPUSCROLL, 34>>
  /\ nes.regs.scroll = <<17, 17>> /\ nes.regs.addr = <<34>>
  /\ fatal = "none"

(***************************************************************************)
(* The NROM cartridge on its two buses: CPU loads and stores in the        *)
(* cartridge space through Memory, and loads and stores on the PPU-side    *)
(* bus of PpuMapper0 with the VRAM and the palette of the Ppu.             *)
(***************************************************************************)
MaxCartCalls == 3

\* The first cartridge address, then $8000-$FFFF: both ends of each 16 KiB
\* half and an address inside each.
CartAddrs == {CART_SPACE_START, 32768, 37137, 49151, 49152, 53521, 65535}

\* CHR, both ends of the VRAM's 2 KiB, the nametable addresses past them, and
\* palette addresses with equal and with different low 5 bits.
PpuBusAddrs == {0, 8191, 8192, 10239, 10240, 12288, 16127, 16128, 16129, 16160, 16383}

CartBytes == {0, 90}

InitCart ==
  /\ a = 0 /\ x = 0 /\ y = 0 /\ s = 253 /\ pc = 0 /\ p = FlagsDefault
  /\ irq_pending = FALSE /\ cycles_remaining = 0 /\ cycle = 0
  /\ memory = [addr \in {} |-> 0]
  /\ NoCallYet
  /\ \E prg_len \in {NROM_128_SIZE, NROM_256_SIZE}, overflow_checks \in BOOLEAN :
       nes = NesNew(prg_len, overflow_checks)

CartLoad ==
  /\ fatal = "none" /\ calls < MaxCartCalls
  /\ \E addr \in CartAddrs :
       \E w \in {MemoryLoad(Working(nes), addr)} : MemoryCommit(w, "load", <<addr>>)

CartStore ==
  /\ fatal = "none" /\ calls < MaxCartCalls
  /\ \E addr \in CartAddrs, value \in CartBytes :
       \E w \in {MemoryStore(Working(nes), addr, value)} :
         MemoryCommit(w, "store", <<addr, value>>)

PpuBusLoad ==
  /\ fatal = "none" /\ calls < MaxCartCalls
  /\ \E addr \in PpuBusAddrs :
       \E w \in {ppu_load(Working(nes), addr)} : MemoryCommit(w, "ppu_load", <<addr>>)

PpuBusStore ==
  /\ fatal = "none" /\ calls < MaxCartCalls
  /\ \E addr \in PpuBusAddrs, value \in CartBytes :
       \E w \in {ppu_store(Working(nes), addr, value)} :
         MemoryCommit(w, "ppu_store", <<addr, value>>)

NextCart == CartLoad \/ CartStore \/ PpuBusLoad \/ PpuBusStore

SpecCart == InitCart /\ [][NextCart]_vars

\* addr XOR $4000, for addr in $8000-$FFFF
OtherHalf(addr) == IF addr < 49152 THEN addr + 16384 ELSE addr - 16384

(***************************************************************************)
(* C23.  For the NROM mapper, a CPU load at any addr in $8000-$FFFF        *)
(* returns prg[(addr - 0x8000) mod len(prg)] with len(prg) in              *)
(* {16384, 32768}, so with a 16 KiB PRG load(addr) = load(addr XOR $4000); *)
(* a CPU store to any cartridge address is ignored, i.e. every later load  *)
(* returns what it returned before the store.                              *)
(***************************************************************************)
C23_NromPrgMirroring ==
  [][/\ nes.rom.prg_len \in {16384, 32768}
     /\ (call' = "load" /\ io'.args[1] >= 32768) =>
          LET addr == io'.args[1]
          IN /\ fatal' = "none"
             /\ io'.ret = IF nes.rom.prg_len = 32768 \/ addr < 49152
                           THEN PrgRom(addr - 32768)
                           ELSE PrgRom(addr - 49152)
             /\ nes.rom.prg_len = 16384 =>
                  io'.ret = MemoryLoad(Working(nes'), OtherHalf(addr)).val
     /\ (call' = "store" /\ io'.args[1] >= CART_SPACE_START) =>
          /\ fatal' = "none"
          /\ \A addr \in CartAddrs :
               Outcome(MemoryLoad(Working(nes'), addr)) = Outcome(MemoryLoad(Working(nes), addr))
    ]_vars

\* The last byte of a 16 KiB image, read at the top of the address space as
\* the second call.
C23_Witness ==
  /\ call = "load" /\ io = [args |-> <<65535>>, ret |-> 62]
  /\ nes.rom.prg_len = NROM_128_SIZE /\ calls = 2 /\ trace = << <<"load", "cart", 65535, 62>> >>

(***************************************************************************)
(* C29.  On the NROM PPU-side bus, a store of v to any nametable address   *)
(* in $2000-$3EFF followed by a load at the same address returns v and     *)
(* indexes only inside the 2 KiB VRAM, and a store of v to a palette       *)
(* address in $3F00-$3FFF followed by a load at any palette address with   *)
(* the same low 5 bits returns v.                                          *)
(***************************************************************************)
C29_PpuBusReadsBackStores ==
  [][/\ (call' = "ppu_store" /\ io'.args[1] >= 8192) =>
          /\ fatal' = "none"
          /\ DOMAIN nes'.vram \subseteq 0..(VRAM_SIZE - 1)
     /\ (/\ call = "ppu_store" /\ call' = "ppu_load"
         /\ io.args[1] >= 8192 /\ io.args[1] < 16128
         /\ io'.args[1] = io.args[1]) =>
          (fatal' = "none" /\ io'.ret = io.args[2])
     /\ (/\ call = "ppu_store" /\ call' = "ppu_load"
         /\ io.args[1] >= 16128 /\ io'.args[1] >= 16128
         /\ io'.args[1] % 32 = io.args[1] % 32) =>
          (fatal' = "none" /\ io'.ret = io.args[2])
    ]_vars

(***************************************************************************)
(* Address on its own: parsing from a string, and the four operators with  *)
(* a signed 8-bit offset.  A string is a sequence of one-character         *)
(* strings.                                                                *)
(***************************************************************************)
MaxStrLen == 5

\* A zero and a non-zero decimal digit, an upper-case and a lower-case hex
\* digit, the x of the prefix, and a letter that is no hex digit.
StrChars == {"0", "7", "C", "f", "x", "g"}

\* Strings of up to MaxStrLen characters, bare and behind "0x".
Strs ==
  LET Bare == UNION {[1..n -> StrChars] : n \in 0..MaxStrLen}
  IN Bare \cup {<<"0", "x">> \o t : t \in Bare}

AddressSamples == {0, 127, 128, 1024, 32768, 65408, 65535}

Offsets == -128..127

\* hex::FromHex: the value of one character, -1 for InvalidHexCharacter
Decimals == <<"0", "1", "2", "3", "4", "5", "6", "7", "8", "9">>
UpperAF == <<"A", "B", "C", "D", "E", "F">>
LowerAF == <<"a", "b", "c", "d", "e", "f">>

val(c) ==
  IF \E i \in 1..10 : Decimals[i] = c THEN (CHOOSE i \in 1..10 : Decimals[i] = c) - 1
  ELSE IF \E i \in 1..6 : UpperAF[i] = c THEN (CHOOSE i \in 1..6 : UpperAF[i] = c) + 9
  ELSE IF \E i \in 1..6 : LowerAF[i] = c THEN (CHOOSE i \in 1..6 : LowerAF[i] = c) + 9
  ELSE -1

\* u16::from_le_bytes in the place of from_be_bytes
u16_from_le_bytes(bytes) == bytes[2] * 256 + bytes[1]

u16_from_be_bytes(bytes) == bytes[1] * 256 + bytes[2]

\* <[u8; 2]>::from_hex on a string of four characters
from_hex(hex) ==
  IF \E i \in 1..4 : val(hex[i]) < 0
    THEN <<"Err", "Invalid hex address">>
    ELSE <<"Ok", <<val(hex[1]) * 16 + val(hex[2]), val(hex[3]) * 16 + val(hex[4])>> >>

strip_prefix(str) ==
  IF Len(str) >= 2 /\ str[1] = "0" /\ str[2] = "x"
    THEN SubSeq(str, 3, Len(str))
    ELSE str

\* impl FromStr for Address
from_str(str) ==
  LET hex == strip_prefix(str)
      Parsed(r) == IF r[1] = "Ok" THEN <<"Ok", u16_from_be_bytes(r[2])>> ELSE r
  IN CASE Len(hex) = 0 -> <<"Err", "Empty address">>
       [] Len(hex) = 1 -> Parsed(from_hex(<<"0", "0", "0">> \o hex))
       [] Len(hex) = 2 -> Parsed(from_hex(<<"0", "0">> \o hex))
       [] Len(hex) = 3 -> Parsed(from_hex(<<"0">> \o hex))
       [] Len(hex) = 4 -> Parsed(from_hex(hex))
       [] OTHER -> <<"Err", "Address is longer than 16 bits">>

\* -other as u16 for an i8 below zero: the negation is done in 8 bits, where
\* -128 has no negative; a build with overflow checks panics there, another
\* leaves -128, which the cast sign-extends.
NegAsU16(other) == IF other = -128 THEN 65408 ELSE -other

NegPanics(other, overflow_checks) == other = -128 /\ overflow_checks

\* impl Sub<i8> for Address and impl SubAssign<i8> for Address
SubI8(addr, other, overflow_checks) ==
  IF other < 0
    THEN IF NegPanics(other, overflow_checks)
           THEN [fatal |-> "overflow", val |-> addr]
           ELSE [fatal |-> "none", val |-> (addr + NegAsU16(other)) % 65536]
    ELSE [fatal |-> "none", val |-> (addr - other) % 65536]

\* impl AddAssign<i8> for Address
AddAssignI8(addr, other, overflow_checks) ==
  IF other < 0
    THEN IF NegPanics(other, overflow_checks)
           THEN [fatal |-> "overflow", val |-> addr]
           ELSE [fatal |-> "none", val |-> (addr - NegAsU16(other)) % 65536]
    ELSE [fatal |-> "none", val |-> (addr + other) % 65536]

\* The state a call on an Address leaves; the Address itself is pc.
AddressCommit(name, args, ret, addr, failure) ==
  /\ call' = name
  /\ io' = [args |-> args, ret |-> ret]
  /\ pc' = addr
  /\ fatal' = failure
  /\ calls' = calls + 1
  /\ UNCHANGED <<a, x, y, s, p, irq_pending, cycles_remaining, cycle, memory,
                 diag, trace, ints, opcode, nes>>

InitAddress ==
  /\ a = 0 /\ x = 0 /\ y = 0 /\ s = 253 /\ p = FlagsDefault
  /\ pc \in AddressSamples
  /\ irq_pending = FALSE /\ cycles_remaining = 0 /\ cycle = 0
  /\ memory = [addr \in {} |-> 0]
  /\ NoCallYet /\ nes = <<>>

AddressFromStr ==
  /\ calls = 0
  /\ \E str \in Strs : AddressCommit("from_str", <<str>>, from_str(str), pc, "none")

AddressAdd ==
  /\ calls = 0
  /\ \E other \in Offsets :
       AddressCommit("add", <<pc, other>>, AddI8(pc, other), pc, "none")

AddressSub ==
  /\ calls = 0
  /\ \E other \in Offsets, overflow_checks \in BOOLEAN :
       \E r \in {SubI8(pc, other, overflow_checks)} :
         AddressCommit("sub", <<pc, other>>, r.val, pc, r.fatal)

AddressAddAssign ==
  /\ calls = 0
  /\ \E other \in Offsets, overflow_checks \in BOOLEAN :
       \E r \in {AddAssignI8(pc, other, overflow_checks)} :
         AddressCommit("add_assign", <<pc, other>>, r.val, r.val, r.fatal)

AddressSubAssign ==
  /\ calls = 0
  /\ \E other \in Offsets, overflow_checks \in BOOLEAN :
       \E r \in {SubI8(pc, other, overflow_checks)} :
         AddressCommit("sub_assign", <<pc, other>>, r.val, r.val, r.fatal)

NextAddress ==
  AddressFromStr \/ AddressAdd \/ AddressSub \/ AddressAddAssign \/ AddressSubAssign

SpecAddress == InitAddress /\ [][NextAddress]_vars

\* The sixteen hexadecimal digits in order, in either case.
HexDigitsLower == <<"0", "1", "2", "3", "4", "5", "6", "7", "8", "9", "a", "b", "c", "d", "e", "f">>
HexDigitsUpper == <<"0", "1", "2", "3", "4", "5", "6", "7", "8", "9", "A", "B", "C", "D", "E", "F">>

IsHexDigit(c) == \E v \in 1..16 : HexDigitsLower[v] = c \/ HexDigitsUpper[v] = c

DigitValue(c) == (CHOOSE v \in 1..16 : HexDigitsLower[v] = c \/ HexDigitsUpper[v] = c) - 1

RECURSIVE NumericValue(_)
NumericValue(digits) ==
  IF digits = <<>> THEN 0
  ELSE NumericValue(SubSeq(digits, 1, Len(digits) - 1)) * 16 + DigitValue(digits[Len(digits)])

\* What follows the optional "0x".
AfterPrefix(str) ==
  IF Len(str) >= 2 /\ SubSeq(str, 1, 2) = <<"0", "x">> THEN SubSeq(str, 3, Len(str)) ELSE str

(***************************************************************************)
(* C26.  Parsing a string made of an optional "0x" prefix followed by 1 to *)
(* 4 hexadecimal digits yields the Address with that numeric value         *)
(* (shorter digit strings are left-padded with zeros); a string with no    *)
(* digits after the prefix, with more than 4 characters after the prefix,  *)
(* or containing a non-hexadecimal character yields an error and no        *)
(* Address.                                                                *)
(***************************************************************************)
C26_AddressParsing ==
  [][call' = "from_str" =>
       LET digits == AfterPrefix(io'.args[1])
       IN IF Len(digits) \in 1..4 /\ \A i \in 1..Len(digits) : IsHexDigit(digits[i])
            THEN io'.ret = <<"Ok", NumericValue(digits)>>
            ELSE io'.ret[1] = "Err"
    ]_vars

\* "0xCf" parsed to $00CF.
C26_Witness ==
  /\ call = "from_str" /\ io.args = << <<"0", "x", "C", "f">> >>
  /\ io.ret = <<"Ok", 207>>

(***************************************************************************)
(* C30.  For every Address a and every signed 8-bit offset o in            *)
(* [-128, 127], each of a + o, a += o, a - o and a -= o yields             *)
(* (a + o) mod 2^16 respectively (a - o) mod 2^16 with o sign-extended to  *)
(* 16 bits, and none of them aborts.                                       *)
(***************************************************************************)
C30_SignedOffsetArithmetic ==
  [][call' \in {"add", "add_assign", "sub", "sub_assign"} =>
       LET addr == io'.args[1]
           o == io'.args[2]
       IN /\ fatal' = "none"
          /\ call' \in {"add", "add_assign"} => io'.ret = (addr + o) % 65536
          /\ call' \in {"sub", "sub_assign"} => io'.ret = (addr - o) % 65536
          /\ call' \in {"add_assign", "sub_assign"} => pc' = io'.ret
          /\ call' \in {"add", "sub"} => pc' = pc
    ]_vars

(***************************************************************************)
(* The undocumented instructions on their own: one step that fetches DCP,  *)
(* ISB, LAX, RLA, RRA, SLO, SRE or a NOP with an operand, in each of its   *)
(* addressing modes, with index registers that wrap the zero page.         *)
(***************************************************************************)
ComposedOpcodes ==
  {195, 199, 207, 211, 215, 219, 223}          \* DCP
    \cup {227, 231, 239, 243, 247, 251, 255}   \* ISB
    \cup {163, 167, 175, 179, 183, 191}        \* LAX
    \cup {35, 39, 47, 51, 55, 59, 63}          \* RLA
    \cup {99, 103, 111, 115, 119, 123, 127}    \* RRA
    \cup {3, 7, 15, 19, 23, 27, 31}            \* SLO
    \cup {67, 71, 79, 83, 87, 91, 95}          \* SRE

LaxOpcodes == {163, 167, 175, 179, 183, 191}

\* NOP with a zero page, zero page X, absolute and absolute X operand
UNopMemoryOpcodes ==
  {4, 68, 100} \cup {20, 52, 84, 116, 212, 244} \cup {12} \cup {28, 60, 92, 124, 220, 252}

\* The other NOPs: immediate operand, and none
UNopOtherOpcodes == {128, 130, 137, 194, 226} \cup {26, 58, 90, 122, 218, 250}

FreshUndoc ==
  [op : ComposedOpcodes \cup UNopMemoryOpcodes \cup UNopOtherOpcodes,
   lo : {16, 255}, hi : {0, 3}, data : {7, 128},
   veclo : VectorLowBytes, vechi : VectorHighBytes]

InitUndoc ==
  /\ a \in {1, 129} /\ x \in IndexBytes /\ y \in IndexBytes
  /\ s = 253 /\ p \in {36, 37} /\ pc = 1536
  /\ irq_pending = FALSE /\ cycles_remaining = 0 /\ cycle = 0
  /\ memory = [addr \in {} |-> 0]
  /\ NoCallYet /\ nes = <<>>

UndocStep ==
  /\ calls = 0
  /\ \E f \in FreshUndoc : Commit(step(Machine(f)), "step")

NextUndoc == UndocStep

SpecUndoc == InitUndoc /\ [][NextUndoc]_vars

\* The transfers of the last call after the instruction's own bytes: those
\* that are loads of the cell addr.
OperandLoads(tr, oplen, addr) ==
  {i \in (oplen + 2)..Len(tr) : tr[i][1] = "load" /\ tr[i][2] = addr}

(***************************************************************************)
(* C31.  Each execution of DCP, ISB, RLA, RRA, SLO, SRE or LAX performs    *)
(* exactly one bus load of the operand location and reuses that byte for   *)
(* both halves of the composition, so a side-effecting operand location is *)
(* read once per instruction and LAX always leaves A = X.  (The operand    *)
(* location is the cell of the instruction's last transfer.)               *)
(***************************************************************************)
C31_OperandReadOnce ==
  [][(call' = "step" /\ opcode' \in ComposedOpcodes) =>
       /\ fatal' = "none"
       /\ Cardinality(OperandLoads(trace', OperandLength(OPCODE_MODE[opcode' + 1]),
                                   trace'[Len(trace')][2])) = 1
       /\ opcode' \in LaxOpcodes => a' = x'
    ]_vars

\* The effective address of a NOP's memory operand, from the operand bytes
\* the step fetched.
UNopTarget(mode, tr, xreg) ==
  CASE mode = "ZeroPage" -> tr[2][3]
    [] mode = "ZeroPageX" -> (tr[2][3] + xreg) % 256
    [] mode = "Absolute" -> tr[2][3] + 256 * tr[3][3]
    [] mode = "AbsoluteX" -> (tr[2][3] + 256 * tr[3][3] + xreg) % 65536

(***************************************************************************)
(* C32.  Each NOP-with-operand variant with a memory operand (zero page,   *)
(* zero page X, absolute, absolute X) performs one bus load at its         *)
(* effective address and discards the byte, and changes no register, flag  *)
(* or memory cell other than advancing PC past the operand.                *)
(***************************************************************************)
C32_NopLoadsOperand ==
  [][(call' = "step" /\ opcode' \in UNopMemoryOpcodes) =>
       LET mode == OPCODE_MODE[opcode' + 1]
           oplen == OperandLength(mode)
       IN /\ fatal' = "none"
          /\ Len(trace') = oplen + 2
          /\ trace'[oplen + 2][1] = "load"
          /\ trace'[oplen + 2][2] = UNopTarget(mode, trace', x)
          /\ a' = a /\ x' = x /\ y' = y /\ s' = s /\ p' = p
          /\ pc' = (pc + 1 + oplen) % 65536
          /\ \A addr \in DOMAIN memory : memory'[addr] = memory[addr]
          /\ \A i \in 1..Len(trace') : trace'[i][1] = "load"
    ]_vars

(***************************************************************************)
(* C33.  ZeroPageX and ZeroPageY effective addresses are (d + X) mod 256   *)
(* and (d + Y) mod 256; IndexedIndirect reads its pointer bytes at         *)
(* (d + X) mod 256 and (d + X + 1) mod 256; IndirectIndexed reads them at  *)
(* d and (d + 1) mod 256 and then adds Y mod 65536.  For every d, X and Y  *)
(* no pointer byte is read from outside $0000-$00FF.  (Read off the bus    *)
(* transfers of a store through the mode followed by a load through it.)   *)
(***************************************************************************)
C33_ZeroPageIndexing ==
  [][call' = "store_load" =>
       LET mode == io'.args[1]
           d == io'.args[2]
           tr == trace'
           Cell1(i) == tr[i][2]
           Byte(i) == tr[i][3]
       IN /\ mode = "ZeroPageX" =>
               /\ Len(tr) = 2 /\ Cell1(1) = (d + x) % 256 /\ Cell1(2) = (d + x) % 256
          /\ mode = "ZeroPageY" =>
               /\ Len(tr) = 2 /\ Cell1(1) = (d + y) % 256 /\ Cell1(2) = (d + y) % 256
          /\ mode = "IndexedIndirect" =>
               /\ Len(tr) = 6
               /\ \A i \in {1, 4} :
                    /\ Cell1(i) = (d + x) % 256 /\ Cell1(i + 1) = (d + x + 1) % 256
                    /\ tr[i][1] = "load" /\ tr[i + 1][1] = "load"
                    /\ Cell1(i + 2) = Byte(i) + 256 * Byte(i + 1)
               /\ tr[3][1] = "store" /\ tr[6][1] = "load"
          /\ mode = "IndirectIndexed" =>
               /\ Len(tr) = 6
               /\ \A i \in {1, 4} :
                    /\ Cell1(i) = d /\ Cell1(i + 1) = (d + 1) % 256
                    /\ tr[i][1] = "load" /\ tr[i + 1][1] = "load"
                    /\ Cell1(i + 2) = (Byte(i) + 256 * Byte(i + 1) + y) % 65536
               /\ tr[3][1] = "store" /\ tr[6][1] = "load"
          /\ mode \in {"IndexedIndirect", "IndirectIndexed"} =>
               \A i \in {1, 2, 4, 5} : Cell1(i) \in 0..255
    ]_vars

\* ($FF),Y with Y = $FF: the pointer's high byte is read at $00, and the
\* target wraps past $FFFF.
C33_Witness ==
  /\ call = "store_load" /\ io.args[1] = "IndirectIndexed" /\ io.args[2] = 255
  /\ y = 255 /\ trace[1][2] = 255 /\ trace[2][2] = 0
  /\ trace[1][3] = 255 /\ trace[2][3] = 255 /\ trace[3][2] = 254

(***************************************************************************)
(* The branches on their own: one step that fetches one of the eight       *)
(* branch instructions, from every combination of the four tested flags,   *)
(* with the offsets at both ends of the signed range, at addresses where   *)
(* the program counter and the target wrap.                                *)
(***************************************************************************)
BranchOpcodes == {16, 48, 80, 112, 144, 176, 208, 240}

\* 0, 1, 127, -128, -127, -2 (the branch to itself) and -1
BranchOffsets == {0, 1, 127, 128, 129, 254, 255}

BranchPcs == {0, 100, 1536, 65534}

\* UNUSED and INTERRUPT_DISABLE, with every combination of CARRY, ZERO,
\* OVERFLOW and NEGATIVE
BranchFlags == {36 + c + z + v + n : c \in {0, 1}, z \in {0, 2}, v \in {0, 64}, n \in {0, 128}}

FreshBranch ==
  [op : BranchOpcodes, lo : BranchOffsets, hi : {0}, data : {0},
   veclo : VectorLowBytes, vechi : VectorHighBytes]

InitBranch ==
  /\ a = 17 /\ x = 34 /\ y = 51 /\ s = 253
  /\ p \in BranchFlags /\ pc \in BranchPcs
  /\ irq_pending = FALSE /\ cycles_remaining = 0 /\ cycle = 0
  /\ memory = [addr \in {} |-> 0]
  /\ NoCallYet /\ nes = <<>>

BranchStep ==
  /\ calls = 0
  /\ \E f \in FreshBranch : Commit(step(Machine(f)), "step")

NextBranch == BranchStep

SpecBranch == InitBranch /\ [][NextBranch]_vars

\* The flag a branch tests, as a bit of P, and the value it branches on
\* (BPL, BMI, BVC, BVS, BCC, BCS, BNE, BEQ).
TestedBit(byte) ==
  CASE byte \in {16, 48} -> 7 [] byte \in {80, 112} -> 6
    [] byte \in {144, 176} -> 0 [] byte \in {208, 240} -> 1

BranchesOn(byte) == IF byte \in {48, 112, 176, 240} THEN 1 ELSE 0

(***************************************************************************)
(* C34.  Each of the eight branch instructions sets PC to (address after   *)
(* the operand + sign-extended offset) mod 2^16 exactly when its tested    *)
(* flag has the branching polarity and otherwise leaves PC at the address  *)
(* after the operand; in both cases no flag, register or memory cell other *)
(* than PC changes, and the target lies within [p - 126, p + 129]          *)
(* (mod 2^16) of the branch opcode's address p, including for offset -128. *)
(* (A branch onto itself ends the step in the loop panic.)                 *)
(***************************************************************************)
C34_Branches ==
  [][(call' = "step" /\ opcode' \in BranchOpcodes) =>
       LET off == Signed(trace'[2][3])
           after == (pc + 2) % 65536
           taken == Bit(p, TestedBit(opcode')) = BranchesOn(opcode')
       IN /\ pc' = IF taken THEN (after + off) % 65536 ELSE after
          /\ p' = p /\ a' = a /\ x' = x /\ y' = y /\ s' = s
          /\ Len(trace') = 2 /\ trace'[1][1] = "load" /\ trace'[2][1] = "load"
          /\ \A addr \in DOMAIN memory : memory'[addr] = memory[addr]
          /\ \E k \in -126..129 : pc' = (pc + k) % 65536
          /\ fatal' = IF pc' = pc THEN "loop" ELSE "none"
    ]_vars

\* BEQ with offset -128 taken at $0600: the target is $0582 = p - 126.
C34_Witness ==
  /\ call = "step" /\ opcode = 240 /\ trace = << <<"load", 1536, 240, "op">>,
                                                 <<"load", 1537, 128, "lo">> >>
  /\ Bit(p, 1) = 1 /\ pc = 1410 /\ fatal = "none"

(***************************************************************************)
(* C35.  After any CPU load or store on a PPU register the last-bus latch  *)
(* equals the byte moved; a load of a write-only register (0, 1, 3, 5, 6   *)
(* and their mirrors) returns the current latch and changes no PPU state,  *)
(* so after store(reg, v) it returns v.                                    *)
(***************************************************************************)
C35_LastBusLatch ==
  [][(/\ call' \in {"load", "store"}
      /\ io'.args[1] >= PPU_REG_START /\ io'.args[1] < IO_REG_START) =>
       LET reg == io'.args[1] % 8
           onPpu == call \in {"load", "store"} /\ io.args[1] >= PPU_REG_START
                      /\ io.args[1] < IO_REG_START
       IN /\ (call' = "store" /\ fatal' = "none") =>
               nes'.regs.most_recent_value = io'.args[2]
          /\ (call' = "load" /\ fatal' = "none") =>
               nes'.regs.most_recent_value = io'.ret
          /\ (call' = "load" /\ reg \in {0, 1, 3, 5, 6}) =>
               /\ fatal' = "none"
               /\ io'.ret = nes.regs.most_recent_value
               /\ nes' = nes
               /\ (onPpu /\ call = "store") => io'.ret = io.args[2]
               /\ (onPpu /\ call = "load") => io'.ret = io.ret
    ]_vars

\* $40 stored to a mirror of PPUSCROLL and read back from a mirror of
\* PPUCTRL.
C35_Witness ==
  /\ call = "load" /\ io = [args |-> <<16376>>, ret |-> 64]
  /\ nes.regs.scroll = <<64>> /\ nes.regs.most_recent_value = 64
  /\ nes.regs.ctrl = 0

(***************************************************************************)
(* The DECIMAL flag: one step on every opcode, from status registers with  *)
(* the flag clear and set, with the operand bytes $09 and $99, whose sums  *)
(* a decimal adder would adjust.                                           *)
(***************************************************************************)
\* ADC and SBC in their eight modes, and the undocumented SBC
AdderOpcodes ==
  {97, 101, 105, 109, 113, 117, 121, 125}
    \cup {225, 229, 233, 237, 241, 245, 249, 253} \cup {235}

\* SED, CLD, PLP and RTI
DecimalWriters == {248, 216, 40, 64}

FreshDecimal ==
  [op : AnyByte, lo : {9, 153}, hi : {0}, data : {6, 9},
   veclo : VectorLowBytes, vechi : VectorHighBytes]

InitDecimal ==
  /\ a \in {0, 9, 153, 255} /\ x = 0 /\ y = 0 /\ s = 253
  /\ p \in {36, 37, 44, 45} /\ pc = 1536
  /\ irq_pending = FALSE /\ cycles_remaining = 0 /\ cycle = 0
  /\ memory = [addr \in {} |-> 0]
  /\ NoCallYet /\ nes = <<>>

DecimalStep ==
  /\ calls = 0
  /\ \E f \in FreshDecimal : Commit(step(Machine(f)), "step")

NextDecimal == DecimalStep

SpecDecimal == InitDecimal /\ [][NextDecimal]_vars

\* The machine the step started on but for DECIMAL, over the cells the step
\* read.
OtherDecimal ==
  [Machine(CHOOSE f \in FreshDecimal : TRUE) EXCEPT !.mem = memory',
                                                    !.p = BitXor(p, DECIMAL)]

(***************************************************************************)
(* C36.  For any two CPU states that differ only in the DECIMAL flag,      *)
(* executing the same ADC or SBC with the same operand yields the same A,  *)
(* CARRY, OVERFLOW, ZERO and NEGATIVE, and leaves DECIMAL as it was in     *)
(* each state; only SED, CLD, PLP and RTI change DECIMAL.                  *)
(***************************************************************************)
C36_DecimalIsStorage ==
  [][call' = "step" =>
       LET Same(other) ==
             /\ other.a = a' /\ other.fatal = fatal' /\ other.opcode = opcode'
             /\ \A i \in {0, 1, 6, 7} : Bit(other.p, i) = Bit(p', i)
             /\ Bit(other.p, 3) = 1 - Bit(p, 3)
       IN /\ opcode' \in AdderOpcodes =>
               (Bit(p', 3) = Bit(p, 3) /\ fatal' = "none" /\ Same(step(OtherDecimal)))
          /\ Bit(p', 3) # Bit(p, 3) => opcode' \in DecimalWriters
    ]_vars

\* ADC #$99 with A = $99 and DECIMAL set: the binary sum $32 with carry.
C36_Witness ==
  /\ call = "step" /\ opcode = 105 /\ trace[2][3] = 153
  /\ a = 50 /\ p = 109 /\ fatal = "none"

(***************************************************************************)
(* Interrupt and return: nmi, irq, or a step that services the latched     *)
(* irq, with RTI as the first instruction of the handler at $0200.         *)
(***************************************************************************)
\* Where the interrupted program stands: mid-page, at the last address, and
\* at the first.
ReturnPcs == {1536, 65535, 0}

\* Stack pointers: the usual one and those where the three pushes wrap.
ReturnStacks == {253, 1, 0}

\* P before the interrupt: UNUSED clear and set, BREAK set,
\* INTERRUPT_DISABLE set, other flags set.
ReturnFlags == {0, 32, 48, 36, 227}

\* RTI at the handler; the vectors point at $0200.
FreshReturn ==
  [op : {64}, lo : {0}, hi : {0}, data : {0},
   veclo : VectorLowBytes, vechi : VectorHighBytes]

InitReturn ==
  /\ a = 17 /\ x = 34 /\ y = 51
  /\ s \in ReturnStacks /\ p \in ReturnFlags /\ pc \in ReturnPcs
  /\ irq_pending \in BOOLEAN /\ cycles_remaining = 0 /\ cycle = 0
  /\ memory = [addr \in {} |-> 0]
  /\ NoCallYet /\ nes = <<>>

\* nmi() and then step()
NmiThenStep ==
  /\ calls = 0
  /\ \E f \in FreshReturn : Commit(step(nmi(Machine(f))), "nmi_step")

\* irq() and then step()
IrqThenStep ==
  /\ calls = 0
  /\ \E f \in FreshReturn : Commit(step(irq(Machine(f))), "irq_step")

\* step() alone: it services the latched irq when INTERRUPT_DISABLE is clear
ReturnStep ==
  /\ calls = 0
  /\ \E f \in FreshReturn : Commit(step(Machine(f)), "step")

NextReturn == NmiThenStep \/ IrqThenStep \/ ReturnStep

SpecReturn == InitReturn /\ [][NextReturn]_vars

\* An interrupt sequence ran before the step's instruction.
Delivered ==
  \/ call' = "nmi_step"
  \/ call' = "irq_step" /\ Bit(p, 2) = 0
  \/ call' = "step" /\ irq_pending /\ Bit(p, 2) = 0

(***************************************************************************)
(* C37.  When nmi, or irq with INTERRUPT_DISABLE clear, is delivered       *)
(* between instructions with PC = p and the handler's first instruction is *)
(* RTI, the step executing that RTI leaves PC = p (execution resumes at    *)
(* the interrupted instruction), S at its pre-interrupt value and P equal  *)
(* to the pre-interrupt P with BREAK = 0 and UNUSED = 1.                   *)
(***************************************************************************)
C37_RtiResumes ==
  [][(Delivered /\ opcode' = 64) =>
       /\ pc' = pc
       /\ s' = s
       /\ p' = BitOr(BitAnd(p, 255 - BREAK), UNUSED)
    ]_vars

(***************************************************************************)
(* The irq latch: irq, nmi and step in any order, on a program of CLI,     *)
(* NOP, RTI and BRK, started after new() and after reset().                *)
(***************************************************************************)
MaxIrqCalls == 5

\* CLI, NOP, RTI and BRK; RTI pulls a P with INTERRUPT_DISABLE clear or set.
FreshIrq ==
  [op : {88, 234, 64, 0}, lo : {0}, hi : {0}, data : {0, 4},
   veclo : VectorLowBytes, vechi : VectorHighBytes]

\* The Cpu as new() leaves it, and as reset() leaves it with the reset vector
\* pointing at $0200.
InitIrq ==
  /\ a = 0 /\ x = 0 /\ y = 0 /\ s = 253
  /\ irq_pending = FALSE /\ cycles_remaining = 0
  /\ \/ p = FlagsDefault /\ pc = 0 /\ cycle = 0 /\ memory = [addr \in {} |-> 0]
     \/ /\ p = Insert(FlagsDefault, INTERRUPT_DISABLE) /\ pc = 512 /\ cycle = 7
        /\ memory = (RESET_VECTOR[1] :> 0) @@ (RESET_VECTOR[2] :> 2)
  /\ NoCallYet /\ nes = <<>>

IrqRunning == fatal = "none" /\ calls < MaxIrqCalls

IrqCall == IrqRunning /\ \E f \in FreshVector : Commit(irq(Machine(f)), "irq")

NmiCall == IrqRunning /\ \E f \in FreshVector : Commit(nmi(Machine(f)), "nmi")

IrqStep == IrqRunning /\ \E f \in FreshIrq : Commit(step(Machine(f)), "step")

NextIrq == IrqCall \/ NmiCall \/ IrqStep

SpecIrq == InitIrq /\ [][NextIrq]_vars

\* The interrupt sequences of a call that are hardware irqs.
IrqSequences(seqs) ==
  {i \in DOMAIN seqs : seqs[i] = [vector |-> IRQ_VECTOR, brk |-> FALSE]}

(***************************************************************************)
(* C38.  irq_pending is a single latch: any number (at least one) of irq   *)
(* calls made while INTERRUPT_DISABLE stays set result in exactly one      *)
(* interrupt sequence, performed at the first later step that starts with  *)
(* INTERRUPT_DISABLE clear; no second interrupt sequence follows from      *)
(* those calls without a new irq call, and nmi never sets or clears        *)
(* irq_pending.                                                            *)
(***************************************************************************)
C38_IrqLatch ==
  [][/\ (call' = "irq" /\ Bit(p, 2) = 1) =>
          /\ irq_pending' /\ ints' = <<>> /\ trace' = <<>>
          /\ pc' = pc /\ s' = s /\ p' = p
     /\ (call' = "irq" /\ Bit(p, 2) = 0) =>
          /\ irq_pending' = irq_pending /\ IrqSequences(ints') = {1} /\ Len(ints') = 1
     /\ call' = "nmi" =>
          /\ irq_pending' = irq_pending /\ IrqSequences(ints') = {}
     /\ (call' = "step" /\ irq_pending /\ Bit(p, 2) = 0) =>
          /\ IrqSequences(ints') = {1}
          /\ trace'[1] = <<"store", 256 + s, ((pc + 1) % 65536) \div 256, "data">>
          /\ irq_pending' = FALSE
     /\ (call' = "step" /\ ~(irq_pending /\ Bit(p, 2) = 0)) =>
          /\ IrqSequences(ints') = {}
          /\ irq_pending' = irq_pending
    ]_vars

\* After reset: irq twice and the steps that execute NOP at $0200 and CLI at
\* $0201, in some order that leaves INTERRUPT_DISABLE set during both irq
\* calls, and then the step that services the latch once, pushing $0203.
C38_Witness ==
  /\ calls = 5 /\ call = "step" /\ fatal = "none"
  /\ ints = << [vector |-> IRQ_VECTOR, brk |-> FALSE] >>
  /\ ~irq_pending /\ s = 250 /\ cycle = 14
  /\ trace[1] = <<"store", 509, 2, "data">> /\ trace[2] = <<"store", 508, 3, "data">>

(***************************************************************************)
(* Cpu::run as a process: it loads the binary, sets the reset vector,      *)
(* resets, and then steps for as long as the program counter is not the    *)
(* end address.  call is its position: "run_reset" after the reset, "step" *)
(* after each step of the loop, "run_return" once it has returned; io      *)
(* holds the arguments start and end.                                      *)
(***************************************************************************)
MaxRunCalls == 5

\* Option<Address>::None
None == -1

RunStarts == {None, 512, 513, 1536}

RunEnds == {None, 512, 514, 1536}

\* The binary: JMP $0600 at $0600, any of NOP, INX and JMP $0600 elsewhere, and a
\* reset vector pointing at $0200.
RunBinary == (1536 :> 76) @@ (1537 :> 0) @@ (1538 :> 6)

FreshRun ==
  [op : {234, 232, 76}, lo : {0}, hi : {6}, data : {0},
   veclo : VectorLowBytes, vechi : VectorHighBytes]

\* Cpu::set_reset_vector
set_reset_vector(c, addr) ==
  BusStore(BusStore(c, RESET_VECTOR[1], AddrLow(addr)), RESET_VECTOR[2], AddrHigh(addr))

\* The loop condition of run as it would be if the end address were not
\* looked at.
run_continues_ignoresEnd(end, now) == TRUE

\* end.map_or(true, |end| self.registers.pc != end)
run_continues(end, now) == end = None \/ now # end

InitRun ==
  /\ a = 0 /\ x = 0 /\ y = 0 /\ s = 253 /\ pc = 0 /\ p = FlagsDefault
  /\ irq_pending = FALSE /\ cycles_remaining = 0 /\ cycle = 0
  /\ memory = RunBinary
  /\ NoCallYet /\ nes = <<>>

\* run up to the loop: the vector is overwritten if a start is given, then
\* reset
RunEnter ==
  /\ call = "new"
  /\ \E f \in FreshRun, start \in RunStarts, end \in RunEnds :
       \E c \in {IF start = None THEN Machine(f) ELSE set_reset_vector(Machine(f), start)} :
         Commit([reset(c) EXCEPT !.io = [args |-> <<start, end>>, ret |-> 0]], "run_reset")

\* one turn of the loop
RunStep ==
  /\ call \in {"run_reset", "step"} /\ fatal = "none" /\ calls < MaxRunCalls
  /\ run_continues(io.args[2], pc)
  /\ \E f \in FreshRun : Commit([step(Machine(f)) EXCEPT !.io = io], "step")

\* the loop ends and run returns
RunReturn ==
  /\ call \in {"run_reset", "step"} /\ fatal = "none"
  /\ ~run_continues(io.args[2], pc)
  /\ \E f \in FreshRun : Commit([Machine(f) EXCEPT !.io = io], "run_return")

NextRun == RunEnter \/ RunStep \/ RunReturn

SpecRun == InitRun /\ [][NextRun]_vars

(***************************************************************************)
(* C39.  Cpu::run(binary, start, end) overwrites the reset vector with     *)
(* start, resets, and then checks PC against end before every step: it     *)
(* returns as soon as PC equals end without executing the instruction at   *)
(* end (so a self-loop located at end is not reported as an infinite       *)
(* loop), and if start equals end it executes no instruction at all.       *)
(***************************************************************************)
C39_RunStopsAtEnd ==
  [][/\ call' = "run_reset" =>
          LET start == io'.args[1]
          IN /\ start # None =>
                  /\ memory'[RESET_VECTOR[1]] = start % 256
                  /\ memory'[RESET_VECTOR[2]] = start \div 256
                  /\ pc' = start
             /\ start = None => pc' = 512
             /\ Bit(p', 2) = 1 /\ opcode' = -1 /\ fatal' = "none"
     /\ call' = "step" => (io' = io /\ pc # io.args[2])
     /\ call' = "run_return" =>
          /\ pc = io.args[2] /\ trace' = <<>> /\ opcode' = -1 /\ fatal' = "none"
          /\ pc' = pc /\ a' = a /\ x' = x /\ y' = y /\ s' = s /\ p' = p
          /\ memory' = memory /\ cycle' = cycle
     /\ (call \in {"run_reset", "step"} /\ fatal = "none" /\ pc = io.args[2]) =>
          call' = "run_return"
     /\ (call = "run_reset" /\ io.args[1] # None /\ io.args[1] = io.args[2]) =>
          call' = "run_return"
    ]_vars

\* Started at $0200 with end = $0600: JMP $0600 is executed, and run returns
\* in front of the JMP $0600 that sits at $0600.
C39_Witness ==
  /\ call = "run_return" /\ io.args = <<512, 1536>> /\ calls = 3
  /\ pc = 1536 /\ memory[1536] = 76 /\ memory[1537] = 0 /\ memory[1538] = 6
  /\ memory[512] = 76 /\ fatal = "none"

(***************************************************************************)
(* The countdown of tick over the whole cycle table: the first instruction *)
(* is any of the 256 opcodes, at address 0; every other cell that is       *)
(* fetched holds NOP.  tick and reset are the operations that assign       *)
(* cycles_remaining.                                                       *)
(***************************************************************************)
MaxCycleCalls == 9

FreshCycles ==
  [op : {234}, lo : {0}, hi : {2}, data : {0},
   veclo : VectorLowBytes, vechi : VectorHighBytes]

InitCycles ==
  /\ a = 0 /\ x = 0 /\ y = 0 /\ s = 253 /\ pc = 0 /\ p = FlagsDefault
  /\ irq_pending = FALSE /\ cycles_remaining = 0 /\ cycle = 0
  /\ \E b \in AnyByte : memory = (0 :> b)
  /\ NoCallYet /\ nes = <<>>

CyclesRunning == fatal = "none" /\ calls < MaxCycleCalls

CyclesTick == CyclesRunning /\ \E f \in FreshCycles : Commit(tick(Machine(f)), "tick")

CyclesReset == CyclesRunning /\ \E f \in FreshCycles : Commit(reset(Machine(f)), "reset")

NextCycles == CyclesTick \/ CyclesReset

SpecCycles == InitCycles /\ [][NextCycles]_vars

(***************************************************************************)
(* C40.  Every entry of the 256-entry cycle table is between 2 and 8, so   *)
(* the subtraction cost - 1 in tick never underflows and cycles_remaining  *)
(* is in 0..7 in every reachable state.                                    *)
(***************************************************************************)
C40_CyclesRemainingRange ==
  /\ Len(CYCLE_TABLE) = 256
  /\ \A i \in 1..256 : CYCLE_TABLE[i] \in 2..8
  /\ cycles_remaining \in 0..7
  /\ (call = "tick" /\ opcode # -1 /\ fatal = "none") =>
       cycles_remaining = CYCLE_TABLE[opcode + 1] - 1

\* The tick that executed SLO ($03, cost 8) at address 0 leaves seven ticks
\* to wait.
C40_Witness ==
  /\ call = "tick" /\ calls = 1 /\ opcode = 3 /\ fatal = "none"
  /\ memory[0] = 3 /\ cycles_remaining = 7 /\ cycle = 1
====
